---- MODULE Spec2Model ----
(***************************************************************************)
(* Fraud-detection dashboard (React front end, REST client, documented     *)
(* scoring pipeline).  The module models                                   *)
(*   - the transaction utilities (buildTransactionFeatures,                *)
(*     validateTransactionFeatures) and apiService.predictTransaction,     *)
(*   - the ManualPrediction pages (single form and CSV batch upload),      *)
(*   - the ViewTransactionDetails page (fetchData, topFeatures),           *)
(*   - the verdict computed by the README's predict sample,                *)
(*   - the documented scoring engine (soft voting, threshold, Shapley),    *)
(*   - the API client's request interceptor,                               *)
(*   - the polling of Dashboard and TransactionHistory, the risk bands,    *)
(*   - the password card of Profile and the phone step of OTPSignIn.       *)
(* JavaScript values are records [k, n]: k is the kind of the value and n  *)
(* its integer payload.  Strings that the code parses are sequences of     *)
(* one-character strings.                                                  *)
(***************************************************************************)
EXTENDS Integers, Sequences, FiniteSets, TLC

VARIABLES
  focus,        \* what is being exercised: a direct call or one page part
  utilCall,     \* direct call: the function called and its arguments
  utilOut,      \* direct call: how the call ended
  network,      \* POST /predict requests sent and not yet answered
  time,         \* ManualPrediction: the Time field (string)
  amount,       \* ManualPrediction: the Amount field (string)
  vFeatures,    \* ManualPrediction: the 28 V fields
  loading,      \* ManualPrediction: a single prediction is running
  result,       \* ManualPrediction: the prediction shown, or Null
  toast,        \* the last toast shown
  edits,        \* number of form edits / file selections made so far
  csvFile,      \* CSV upload: name of the selected file, or Null
  csvData,      \* CSV upload: the loaded rows
  csvParsing,   \* CSV upload: "Parsing..." is shown
  readers,      \* CSV upload: FileReader reads started and not yet ended
  loadedText,   \* CSV upload: the text the last finished read delivered
  batchLoading, \* batch: a run is in progress
  batchProgress,    \* batch: percentage shown by the progress bar
  batchResults,     \* batch: the results shown
  showBatchResults, \* batch: the results card is enabled
  batch,        \* batch: locals of the running handleBatchPredict
  id,           \* ViewTransactionDetails: the route parameter ("" when absent)
  returnPath,   \* ViewTransactionDetails: location.state.from or "/transactions"
  pc,           \* ViewTransactionDetails: position of the effect / fetchData
  transaction,  \* ViewTransactionDetails: the loaded transaction, or NoTransaction
  explanation,  \* ViewTransactionDetails: the loaded explanation, or NoExplanation
  explanationLoading, \* ViewTransactionDetails: the explanation is being fetched
  toasts,       \* ViewTransactionDetails: the toasts shown, in order
  navigated,    \* ViewTransactionDetails: the paths navigate() was called with
  fetchData,    \* ViewTransactionDetails: state of the promise of fetchData()
  replies,      \* ViewTransactionDetails: the replies received, in order
  fraud_prob,   \* README predict: the model's fraud probability, in 1/ProbScale
  scored,       \* README predict: the returned dictionary, or NotScored
  ensemble,     \* scoring engine: the loaded members and weights (set at startup)
  calls,        \* scoring engine: the predict calls in progress or finished
  acc,          \* scoring engine: the accumulators of the weighted sums
  attribution,  \* scoring engine: the last explanation result, or NoAttribution
  currentUser,  \* API client: auth.currentUser, or NoUser
  pending,      \* API client: requests whose interceptor awaits getIdToken()
  sent,         \* API client: requests the interceptor has passed on
  pollPage,     \* polling pages: the component ("Dashboard", "TransactionHistory")
  mounted,      \* polling pages: "no" before the mount, "yes", "gone" after unmount
  now,          \* polling pages: seconds elapsed since the page was opened
  interval,     \* polling pages: the timer made by setInterval
  polls,        \* polling pages: the fetches started, in order
  shown,        \* polling pages: the data and the error the page shows
  pollLoading,  \* polling pages: the page's loading flag
  initialLoad,  \* polling pages: the effect's local initialLoad
  scores,       \* risk bands: the riskScore of each transaction of the dashboard
  labels,       \* risk bands: the label RiskScore rendered in each table row so far
  riskDistribution, \* risk bands: the counts of the pie chart, or NoDistribution
  profileUser,  \* Profile: the user state, or NoUser
  passwordData, \* Profile: the three password fields
  saving,       \* Profile: the saving flag (disables the buttons)
  pwRun,        \* Profile: the running handlePasswordUpdate, or NotRunning
  pwToast,      \* Profile: the last toast of the password card
  pwEdits,      \* Profile: number of edits of the password fields so far
  accountPassword,  \* Firebase: the password of the signed-in account
  updateCalls,  \* Firebase: the updatePassword calls made, in order
  phoneNumber,  \* OTPSignIn: the phone number field
  otpLoading,   \* OTPSignIn: the loading flag (disables field and button)
  otpError,     \* OTPSignIn: the error shown, or NoOtpError
  otpStep,      \* OTPSignIn: "phone" or "otp"
  formattedPhone,   \* OTPSignIn: the last call of formatPhoneNumber, or NotFormatted
  otpSends      \* OTPSignIn: number of sendOTP calls made so far

utilVars == <<utilCall, utilOut>>
formVars == <<time, amount, vFeatures, loading, result>>
csvVars == <<csvFile, csvData, csvParsing, readers, loadedText>>
batchVars == <<batchLoading, batchProgress, batchResults, showBatchResults, batch>>
detailsVars ==
  <<id, returnPath, pc, transaction, explanation, explanationLoading, toasts,
    navigated, fetchData, replies>>
scoreVars == <<fraud_prob, scored>>
engineVars == <<ensemble, calls, acc, attribution>>
clientVars == <<currentUser, pending, sent>>
pollVars ==
  <<pollPage, mounted, now, interval, polls, shown, pollLoading, initialLoad>>
bandVars == <<scores, labels, riskDistribution>>
profileVars ==
  <<profileUser, passwordData, saving, pwRun, pwToast, pwEdits,
    accountPassword, updateCalls>>
otpVars ==
  <<phoneNumber, otpLoading, otpError, otpStep, formattedPhone, otpSends>>
restVars == <<engineVars, clientVars, pollVars, bandVars, profileVars, otpVars>>
notEngine == <<clientVars, pollVars, bandVars, profileVars, otpVars>>
notClient == <<engineVars, pollVars, bandVars, profileVars, otpVars>>
notPoll == <<engineVars, clientVars, bandVars, profileVars, otpVars>>
notBand == <<engineVars, clientVars, pollVars, profileVars, otpVars>>
notProfile == <<engineVars, clientVars, pollVars, bandVars, otpVars>>
notOtp == <<engineVars, clientVars, pollVars, bandVars, profileVars>>

-----------------------------------------------------------------------------
(* Bounds of the model and constants of the program *)

FeatureCount == 30      \* length checked by validate / predictTransaction
VFeatureCount == 28     \* number of V features
MaxExtra == 2           \* direct-call inputs have 0 .. FeatureCount+MaxExtra elements

Null == [k |-> "null", n |-> 0]

-----------------------------------------------------------------------------
(* JavaScript values *)

Num(n) == [k |-> "num", n |-> n]
NaN == [k |-> "nan", n |-> 0]
PosInf == [k |-> "inf", n |-> 1]
NegInf == [k |-> "inf", n |-> -1]
NonNum == [k |-> "str", n |-> 0]      \* an element that is not of type number

\* typeof v === 'number'
TypeofNumber(v) == v.k \in {"num", "nan", "inf"}

\* isNaN(v): the global isNaN coerces its argument to a number first
isNaN(v) == v.k \in {"nan", "str"}

\* Number.isFinite(v)
IsFinite(v) == v.k = "num"

\* v || 0
OrZero(v) == IF v.k = "nan" \/ (v.k = "num" /\ v.n = 0) THEN Num(0) ELSE v

Returned(v) == [kind |-> "return", value |-> v, message |-> "-"]
Threw(m) == [kind |-> "throw", value |-> Null, message |-> m]
NoOutcome == [kind |-> "none", value |-> Null, message |-> "-"]

ShapeError == "Expected 30 features"
ValueError == "All features must be valid numbers"
NotArrayError == "Features must be an array"
VShapeError == "Expected 28 V features"

-----------------------------------------------------------------------------
(* Transaction utilities *)

\* the amount put first and the time last
buildAmountFirst(timeArg, vArg, amountArg) ==
  IF Len(vArg) # VFeatureCount
    THEN Threw(VShapeError)
    ELSE Returned(<<amountArg>> \o vArg \o <<timeArg>>)

\* buildTransactionFeatures(time, vFeatures, amount)
buildTransactionFeatures(timeArg, vArg, amountArg) ==
  IF Len(vArg) # VFeatureCount
    THEN Threw(VShapeError)
    ELSE Returned(<<timeArg>> \o vArg \o <<amountArg>>)

\* features.every(f => typeof f === 'number' && !isNaN(f))
EveryValidNumber(elems) ==
  \A i \in 1..Len(elems) : TypeofNumber(elems[i]) /\ ~isNaN(elems[i])

\* validateTransactionFeatures(features); features = [isArray, elems]
validateTransactionFeatures(features) ==
  IF ~features.isArray THEN Threw(NotArrayError)
  ELSE IF Len(features.elems) # FeatureCount THEN Threw(ShapeError)
  ELSE IF ~EveryValidNumber(features.elems) THEN Threw(ValueError)
  ELSE Returned([k |-> "bool", n |-> 1])

-----------------------------------------------------------------------------
(* apiService.predictTransaction *)

\* a guard that lets longer arrays through (features.length < 30)
PredictRejectsShorterOnly(elems) == Len(elems) < FeatureCount

\* the guard of predictTransaction: features.length !== 30
PredictRejects(elems) == Len(elems) # FeatureCount

\* a POST /predict in flight; origin names the caller, src is the history of
\* the raw cells the features were converted from (read by no action)
Request(origin, elems, src) == [origin |-> origin, features |-> elems, src |-> src]

-----------------------------------------------------------------------------
(* Strings are sequences of one-character strings.  Numbers read from text  *)
(* are fixed-point with two decimals: Num(n) read from text stands for      *)
(* n/100.  The texts of the model carry no exponent and at most two         *)
(* non-zero decimals.                                                       *)

SP == " "
TAB == "TAB"
LF == "LF"
CR == "CR"
QUOTE == "QUOTE"
DOT == "."
Whitespace == {SP, TAB, LF, CR}
Digits == <<"0", "1", "2", "3", "4", "5", "6", "7", "8", "9">>
IsDigit(c) == \E i \in 1..10 : Digits[i] = c
DigitVal(c) == (CHOOSE i \in 1..10 : Digits[i] = c) - 1
InfinityChars == <<"I", "n", "f", "i", "n", "i", "t", "y">>

DropFirst(s, n) == SubSeq(s, n + 1, Len(s))
IsPrefix(p, s) == Len(p) <= Len(s) /\ SubSeq(s, 1, Len(p)) = p

\* number of leading characters of s, from position i on, that are in set
RECURSIVE LeadingCount(_, _, _)
LeadingCount(s, i, set) ==
  IF i <= Len(s) /\ s[i] \in set THEN LeadingCount(s, i + 1, set) ELSE i - 1

DigitChars == {Digits[i] : i \in 1..10}
TrimStart(s) == DropFirst(s, LeadingCount(s, 1, Whitespace))

RECURSIVE TrimEnd(_)
TrimEnd(s) ==
  IF s # << >> /\ s[Len(s)] \in Whitespace THEN TrimEnd(SubSeq(s, 1, Len(s) - 1)) ELSE s

\* String.prototype.trim
Trim(s) == TrimEnd(TrimStart(s))

\* value of a run of decimal digits
RECURSIVE DigitsValue(_)
DigitsValue(ds) ==
  IF ds = << >> THEN 0
  ELSE 10 * DigitsValue(SubSeq(ds, 1, Len(ds) - 1)) + DigitVal(ds[Len(ds)])

\* the first two decimals of a run of fraction digits, in hundredths
Hundredths(fs) ==
  (IF Len(fs) >= 1 THEN 10 * DigitVal(fs[1]) ELSE 0)
  + (IF Len(fs) >= 2 THEN DigitVal(fs[2]) ELSE 0)

\* parseFloat of an unsigned text: Infinity, or digits [. digits], else NaN
ParseUnsigned(s, sign) ==
  IF IsPrefix(InfinityChars, s) THEN [k |-> "inf", n |-> sign]
  ELSE
    LET nInt == LeadingCount(s, 1, DigitChars)
        rest == DropFirst(s, nInt)
        nFrac == IF rest # << >> /\ rest[1] = DOT
                   THEN LeadingCount(DropFirst(rest, 1), 1, DigitChars) ELSE 0
        frac == IF nFrac > 0 THEN SubSeq(rest, 2, nFrac + 1) ELSE << >>
    IN IF nInt = 0 /\ nFrac = 0 THEN NaN
       ELSE Num(sign * (100 * DigitsValue(SubSeq(s, 1, nInt)) + Hundredths(frac)))

\* parseFloat(s): leading white space skipped, the longest numeric prefix read
parseFloat(s) ==
  LET t == TrimStart(s)
  IN IF t # << >> /\ t[1] = "-" THEN ParseUnsigned(DropFirst(t, 1), -1)
     ELSE IF t # << >> /\ t[1] = "+" THEN ParseUnsigned(DropFirst(t, 1), 1)
     ELSE ParseUnsigned(t, 1)

\* history of where a submitted feature came from: a text that was parsed,
\* or a number held in the page state
RawText(s) == [raw |-> "text", text |-> s, num |-> Null]
RawNum(v) == [raw |-> "num", text |-> << >>, num |-> v]

-----------------------------------------------------------------------------
(* The backend behind POST /predict is not part of the front end: a request *)
(* is answered by one of these outcomes.  probability is a percentage with  *)
(* two decimals (9500 = 95.00).                                             *)

OkResponse(prediction, probability) ==
  [ok |-> TRUE, prediction |-> prediction, probability |-> probability,
   threshold_used |-> 8980, detail |-> "-", message |-> "-"]
ErrResponse(detail, message) ==
  [ok |-> FALSE, prediction |-> "-", probability |-> 0,
   threshold_used |-> 0, detail |-> detail, message |-> message]

PredictOutcomes ==
  { OkResponse("Fraudulent", 9500), OkResponse("Legitimate", 1000),
    ErrResponse("Invalid features", "Request failed with status code 422"),
    ErrResponse("-", "Network Error") }

\* the batch run shows error.message for both failures: one stands for them
BatchOutcomes ==
  { OkResponse("Fraudulent", 9500), OkResponse("Legitimate", 1000),
    ErrResponse("-", "Network Error") }

NoToast == [level |-> "none", msg |-> "-", counts |-> << >>]
Toast(level, msg) == [level |-> level, msg |-> msg, counts |-> << >>]

-----------------------------------------------------------------------------
(* Direct calls of the utilities and of apiService.predictTransaction *)

\* an array of len elements, element i being i, but val at position pos
RawArray(len, pos, val) ==
  [i \in 1..len |-> IF i = pos THEN val ELSE Num(i)]

SpecialValues == {NaN, PosInf, NegInf, NonNum}
Lengths == 0..(FeatureCount + MaxExtra)

\* the arguments tried: arrays of every length with at most one special
\* element (first or last), and values that are not arrays
RawInputs ==
  { [isArray |-> TRUE, elems |-> RawArray(len, 0, NaN)] : len \in Lengths }
  \cup { [isArray |-> TRUE, elems |-> RawArray(len, pos, val)] :
           len \in Lengths \ {0}, pos \in {1, FeatureCount}, val \in SpecialValues }
  \cup { [isArray |-> FALSE, elems |-> RawArray(len, 0, NaN)] : len \in Lengths }

NoCall(arg) == [fn |-> "none", arg |-> arg]
BuildTime == Num(-1)
BuildAmount == Num(-2)

DirectSrc(elems) == [i \in 1..Len(elems) |-> RawNum(elems[i])]

CallValidate ==
  /\ focus = "direct"
  /\ utilCall.fn = "none"
  /\ utilCall' = [utilCall EXCEPT !.fn = "validate"]
  /\ utilOut' = validateTransactionFeatures(utilCall.arg)
  /\ UNCHANGED <<focus, detailsVars, scoreVars, restVars, network, formVars, toast, edits, csvVars, batchVars>>

CallBuild ==
  /\ focus = "direct"
  /\ utilCall.fn = "none"
  /\ utilCall.arg.isArray
  /\ utilCall' = [utilCall EXCEPT !.fn = "build"]
  /\ utilOut' = buildTransactionFeatures(BuildTime, utilCall.arg.elems, BuildAmount)
  /\ UNCHANGED <<focus, detailsVars, scoreVars, restVars, network, formVars, toast, edits, csvVars, batchVars>>

\* apiService.predictTransaction(features), up to the await of api.post
CallPredict ==
  /\ focus = "direct"
  /\ utilCall.fn = "none"
  /\ utilCall' = [utilCall EXCEPT !.fn = "predict"]
  /\ IF PredictRejects(utilCall.arg.elems)
       THEN /\ utilOut' = Threw(ShapeError)
            /\ network' = network
       ELSE /\ utilOut' = NoOutcome
            /\ network' = network \cup
                 {Request("direct", utilCall.arg.elems, DirectSrc(utilCall.arg.elems))}
  /\ UNCHANGED <<focus, detailsVars, scoreVars, restVars, formVars, toast, edits, csvVars, batchVars>>

\* the answer to a direct predictTransaction: response.data, or the rejection
DirectResponse ==
  /\ focus = "direct"
  /\ \E r \in network, o \in PredictOutcomes :
       /\ r.origin = "direct"
       /\ network' = network \ {r}
       /\ utilOut' = IF o.ok THEN Returned(o) ELSE Threw(o.message)
  /\ UNCHANGED <<focus, detailsVars, scoreVars, restVars, utilCall, formVars, toast, edits, csvVars, batchVars>>

-----------------------------------------------------------------------------
(* ManualPrediction, first version: the form keeps every field as a string  *)

MaxEdits == 2           \* edits of the form per run of the model

\* what a type="number" input can report: empty (also for rejected text)
\* or a number
FormTexts == { << >>, <<"0">>, <<"1", "2", ".", "5">> }
\* the V fields edited in the model: the first and the last
EditedIndexes == {0, VFeatureCount - 1}

Fill(n, v) == [i \in 1..n |-> v]
Text_0_0 == <<"0", ".", "0">>
Text_100_0 == <<"1", "0", "0", ".", "0">>

\* outcomes of (Math.random() * 6 - 3).toFixed(6) and of
\* (Math.random() * 2 - 1).toFixed(6) kept by the model; every V field of
\* one sample takes the same draw
FraudDraws == { <<"-", "3", ".", "0", "0", "0", "0", "0", "0">>,
                <<"2", ".", "2", "5", "0", "0", "0", "0">> }
LegitDraws == { <<"-", "1", ".", "0", "0", "0", "0", "0", "0">>,
                <<"0", ".", "5", "0", "0", "0", "0", "0">> }

ShownResult(o) ==
  [prediction |-> o.prediction, probability |-> o.probability,
   threshold_used |-> o.threshold_used]

A_setTime ==
  /\ focus = "formA" /\ edits < MaxEdits
  /\ \E s \in FormTexts : time' = s
  /\ edits' = edits + 1
  /\ UNCHANGED <<focus, detailsVars, scoreVars, restVars, utilVars, network, amount, vFeatures, loading, result, toast, csvVars, batchVars>>

A_setAmount ==
  /\ focus = "formA" /\ edits < MaxEdits
  /\ \E s \in FormTexts : amount' = s
  /\ edits' = edits + 1
  /\ UNCHANGED <<focus, detailsVars, scoreVars, restVars, utilVars, network, time, vFeatures, loading, result, toast, csvVars, batchVars>>

A_handleInputChange ==
  /\ focus = "formA" /\ edits < MaxEdits
  /\ \E index \in EditedIndexes, value \in FormTexts :
       vFeatures' = [vFeatures EXCEPT ![index + 1] = value]
  /\ edits' = edits + 1
  /\ UNCHANGED <<focus, detailsVars, scoreVars, restVars, utilVars, network, time, amount, loading, result, toast, csvVars, batchVars>>

A_generateSampleFeatures ==
  /\ focus = "formA" /\ edits < MaxEdits
  /\ \/ /\ time' = <<"5", "0", "0", "0", "0", ".", "0">>
        /\ amount' = <<"2", "5", "0", "0", ".", "0">>
        /\ \E d \in FraudDraws : vFeatures' = Fill(VFeatureCount, d)
     \/ /\ time' = <<"9", "4", "8", "1", "3", ".", "8", "6">>
        /\ amount' = <<"8", "8", ".", "3", "5">>
        /\ \E d \in LegitDraws : vFeatures' = Fill(VFeatureCount, d)
  /\ edits' = edits + 1
  /\ UNCHANGED <<focus, detailsVars, scoreVars, restVars, utilVars, network, loading, result, toast, csvVars, batchVars>>

\* [parseFloat(time) || 0, ...vFeatures.map(v => parseFloat(v) || 0),
\*  parseFloat(amount) || 0]
A_features ==
  <<OrZero(parseFloat(time))>>
  \o [i \in 1..Len(vFeatures) |-> OrZero(parseFloat(vFeatures[i]))]
  \o <<OrZero(parseFloat(amount))>>

A_src ==
  <<RawText(time)>> \o [i \in 1..Len(vFeatures) |-> RawText(vFeatures[i])]
  \o <<RawText(amount)>>

\* handlePredict up to the await; the button is disabled while loading
A_handlePredict ==
  /\ focus = "formA" /\ ~loading
  /\ result' = Null
  /\ IF Len(A_features) # FeatureCount
       THEN /\ toast' = Toast("error", "Invalid feature count. Expected 30 features.")
            /\ loading' = FALSE
            /\ network' = network
       ELSE IF PredictRejects(A_features)
       THEN /\ toast' = Toast("error", ShapeError)
            /\ loading' = FALSE
            /\ network' = network
       ELSE /\ toast' = toast
            /\ loading' = TRUE
            /\ network' = network \cup {Request("formA", A_features, A_src)}
  /\ UNCHANGED <<focus, detailsVars, scoreVars, restVars, utilVars, time, amount, vFeatures, edits, csvVars, batchVars>>

\* the rest of handlePredict: the answer arrives
A_predictResponse ==
  /\ focus = "formA"
  /\ \E r \in network, o \in PredictOutcomes :
       /\ r.origin = "formA"
       /\ network' = network \ {r}
       /\ IF o.ok
            THEN /\ result' = ShownResult(o)
                 /\ toast' = Toast("success", "Prediction completed!")
            ELSE /\ result' = result
                 /\ toast' = Toast("error", o.message)
  /\ loading' = FALSE
  /\ UNCHANGED <<focus, detailsVars, scoreVars, restVars, utilVars, time, amount, vFeatures, edits, csvVars, batchVars>>

-----------------------------------------------------------------------------
(* ManualPrediction, later versions: Time and Amount are strings, the V     *)
(* fields are numbers.  The page with the CSV upload ("formB") and the page *)
(* without it ("formC") share this form.                                    *)

FormPages == {"formB", "formC"}
\* nothing is submitted before Time and Amount are typed: one edit more
MaxFormEdits == MaxEdits + 1

setTime ==
  /\ focus \in FormPages /\ edits < MaxFormEdits
  /\ \E s \in FormTexts : time' = s
  /\ edits' = edits + 1
  /\ UNCHANGED <<focus, detailsVars, scoreVars, restVars, utilVars, network, amount, vFeatures, loading, result, toast, csvVars, batchVars>>

setAmount ==
  /\ focus \in FormPages /\ edits < MaxFormEdits
  /\ \E s \in FormTexts : amount' = s
  /\ edits' = edits + 1
  /\ UNCHANGED <<focus, detailsVars, scoreVars, restVars, utilVars, network, time, vFeatures, loading, result, toast, csvVars, batchVars>>

handleVFeatureChange ==
  /\ focus \in FormPages /\ edits < MaxFormEdits
  /\ \E index \in EditedIndexes, value \in FormTexts :
       vFeatures' = [vFeatures EXCEPT ![index + 1] = OrZero(parseFloat(value))]
  /\ edits' = edits + 1
  /\ UNCHANGED <<focus, detailsVars, scoreVars, restVars, utilVars, network, time, amount, loading, result, toast, csvVars, batchVars>>

handleReset ==
  /\ focus \in FormPages /\ ~loading
  /\ time' = << >>
  /\ amount' = << >>
  /\ vFeatures' = Fill(VFeatureCount, Num(0))
  /\ result' = Null
  /\ UNCHANGED <<focus, detailsVars, scoreVars, restVars, utilVars, network, loading, toast, edits, csvVars, batchVars>>

\* [parseFloat(time), ...vFeatures, parseFloat(amount)]
FormFeatures == <<parseFloat(time)>> \o vFeatures \o <<parseFloat(amount)>>

FormSrc ==
  <<RawText(time)>> \o [i \in 1..Len(vFeatures) |-> RawNum(vFeatures[i])]
  \o <<RawText(amount)>>

\* features.some(isNaN)
SomeNaN(elems) == \E i \in 1..Len(elems) : isNaN(elems[i])

\* handlePredict up to the await; the button is disabled while loading
handlePredict ==
  /\ focus \in FormPages /\ ~loading
  /\ IF time = << >> \/ amount = << >>
       THEN /\ toast' = Toast("error", "Please fill in Time and Amount fields")
            /\ UNCHANGED <<loading, result, network>>
       ELSE IF Len(FormFeatures) # FeatureCount
       THEN /\ toast' = Toast("error", "Invalid feature count")
            /\ UNCHANGED <<loading, result, network>>
       ELSE IF SomeNaN(FormFeatures)
       THEN /\ toast' = Toast("error", "Please enter valid numeric values for all fields")
            /\ UNCHANGED <<loading, result, network>>
       ELSE IF PredictRejects(FormFeatures)
       THEN /\ toast' = Toast("error", ShapeError)
            /\ result' = Null
            /\ loading' = FALSE
            /\ network' = network
       ELSE /\ toast' = toast
            /\ result' = Null
            /\ loading' = TRUE
            /\ network' = network \cup {Request(focus, FormFeatures, FormSrc)}
  /\ UNCHANGED <<focus, detailsVars, scoreVars, restVars, utilVars, time, amount, vFeatures, edits, csvVars, batchVars>>

\* the message of the catch block: error.message on the page with the
\* upload, error.response?.data?.detail || error.message on the other
CaughtMessage(page, o) ==
  IF page = "formC" /\ o.detail # "-" THEN o.detail ELSE o.message

\* the rest of handlePredict: the answer arrives
predictResponse ==
  /\ focus \in FormPages
  /\ \E r \in network, o \in PredictOutcomes :
       /\ r.origin = focus
       /\ network' = network \ {r}
       /\ IF o.ok
            THEN /\ result' = ShownResult(o)
                 /\ toast' = Toast("success", "Prediction completed!")
            ELSE /\ result' = result
                 /\ toast' = Toast("error", CaughtMessage(focus, o))
  /\ loading' = FALSE
  /\ UNCHANGED <<focus, detailsVars, scoreVars, restVars, utilVars, time, amount, vFeatures, edits, csvVars, batchVars>>

-----------------------------------------------------------------------------
(* ManualPrediction, CSV upload: parsing of the file text (reader.onload)   *)

Min(S) == CHOOSE x \in S : \A y \in S : x <= y

\* text.split(/\r?\n|\r/): CR LF, LF and CR each end a line.  A line ends
\* at the first CR or LF at or after its start; a CR takes the LF after it.
RECURSIVE LinesFrom(_, _)
LinesFrom(text, start) ==
  LET breaks == { i \in start..Len(text) : text[i] \in {CR, LF} }
  IN IF breaks = {} THEN <<SubSeq(text, start, Len(text))>>
     ELSE LET b == Min(breaks)
              e == IF text[b] = CR /\ b < Len(text) /\ text[b + 1] = LF
                     THEN b + 1 ELSE b
          IN <<SubSeq(text, start, b - 1)>> \o LinesFrom(text, e + 1)

SplitLines(text) == LinesFrom(text, 1)

\* .filter(line => line.trim().length > 0)
NonBlankLines(ls) == SelectSeq(ls, LAMBDA l : Trim(l) # << >>)

\* line.split(c).length - 1
CountChar(s, c) == Cardinality({ i \in 1..Len(s) : s[i] = c })

\* comma unless the line has more semicolons, or else more tabs, than commas
DetectDelimiter(line) ==
  IF CountChar(line, ";") > 0 /\ CountChar(line, ";") + 1 > CountChar(line, ",") + 1
    THEN ";"
  ELSE IF CountChar(line, TAB) > 0 /\ CountChar(line, TAB) + 1 > CountChar(line, ",") + 1
    THEN TAB
  ELSE ","

\* the character loop over one line: a quote toggles inQuotes and is
\* dropped, a delimiter met while inQuotes is false ends the value, every
\* value is trimmed.  inQuotes is false at j when the number of quotes
\* before j is even.
DelimiterPositions(line, delimiter) ==
  { j \in 1..Len(line) :
      /\ line[j] = delimiter
      /\ Cardinality({ q \in 1..(j - 1) : line[q] = QUOTE }) % 2 = 0 }

ValueBetween(line, first, last) ==
  Trim(SelectSeq(SubSeq(line, first, last), LAMBDA c : c # QUOTE))

RECURSIVE ValuesFrom(_, _, _)
ValuesFrom(line, start, ends) ==
  LET later == { d \in ends : d >= start }
  IN IF later = {} THEN <<ValueBetween(line, start, Len(line))>>
     ELSE <<ValueBetween(line, start, Min(later) - 1)>>
          \o ValuesFrom(line, Min(later) + 1, ends)

SplitValues(line, delimiter) ==
  ValuesFrom(line, 1, DelimiterPositions(line, delimiter))

\* v.replace(/^"|"$/g, '').trim()
Cleaned(v) ==
  LET a == IF v # << >> /\ v[1] = QUOTE THEN DropFirst(v, 1) ELSE v
      b == IF a # << >> /\ a[Len(a)] = QUOTE THEN SubSeq(a, 1, Len(a) - 1) ELSE a
  IN Trim(b)

\* const num = parseFloat(cleaned); return isNaN(num) ? 0 : num
NumericValue(v) ==
  LET num == parseFloat(Cleaned(v)) IN IF isNaN(num) THEN Num(0) ELSE num

NumericValues(values) == [j \in 1..Len(values) |-> NumericValue(values[j])]

\* values.some(v => isNaN(parseFloat(cleaned)) && cleaned.length > 0)
HasNonNumeric(values) ==
  \E j \in 1..Len(values) :
    isNaN(parseFloat(Cleaned(values[j]))) /\ Cleaned(values[j]) # << >>

ValuesOf(line) == SplitValues(Trim(line), DetectDelimiter(Trim(line)))

\* a loaded row: the numbers pushed to parsedData, with the history of the
\* values they were converted from (read by no action)
LoadedRow(nums, values) == [features |-> nums, cells |-> values]

\* the row loop: the first line is skipped as a header when it has a
\* non-numeric value or not exactly 30 columns; a row of 30 columns is
\* pushed, a row of 31 columns is pushed without its last column, any other
\* row is skipped
\* the row loop with every row longer than 30 columns cut to 30
RECURSIVE ParseRowsCutAnyLonger(_, _)
ParseRowsCutAnyLonger(lines, i) ==
  IF i > Len(lines) THEN << >>
  ELSE
    LET values == ValuesOf(lines[i])
        numericValues == NumericValues(values)
    IN IF i = 1 /\ (HasNonNumeric(values) \/ Len(numericValues) # FeatureCount)
         THEN ParseRowsCutAnyLonger(lines, i + 1)
       ELSE IF Len(numericValues) >= FeatureCount
         THEN <<LoadedRow(SubSeq(numericValues, 1, FeatureCount), values)>>
              \o ParseRowsCutAnyLonger(lines, i + 1)
       ELSE ParseRowsCutAnyLonger(lines, i + 1)

RECURSIVE ParseRows(_, _)
ParseRows(lines, i) ==
  IF i > Len(lines) THEN << >>
  ELSE
    LET values == ValuesOf(lines[i])
        numericValues == NumericValues(values)
    IN IF i = 1 /\ (HasNonNumeric(values) \/ Len(numericValues) # FeatureCount)
         THEN ParseRows(lines, i + 1)
       ELSE IF Len(numericValues) = FeatureCount
         THEN <<LoadedRow(numericValues, values)>> \o ParseRows(lines, i + 1)
       ELSE IF Len(numericValues) = FeatureCount + 1
         THEN <<LoadedRow(SubSeq(numericValues, 1, FeatureCount), values)>>
              \o ParseRows(lines, i + 1)
       ELSE ParseRows(lines, i + 1)

ParseCsv(text) == ParseRows(NonBlankLines(SplitLines(text)), 1)

-----------------------------------------------------------------------------
(* The CSV files of the model *)

MaxRows == 2            \* data rows per generated file
MaxSelections == 1      \* files selected per run of the model
MaxReselections == 2    \* files selected when the upload is exercised alone

\* the CSV upload within the whole page ("csvB") and on its own ("csvR")
CsvPages == {"csvB", "csvR"}
SelectionLimit == IF focus = "csvR" THEN MaxReselections ELSE MaxSelections

\* column i of a generated row holds one digit, 1 .. 9
Cell(i) == <<Digits[(i % 9) + 2]>>

RECURSIVE Join(_, _)
Join(parts, sep) ==
  IF parts = << >> THEN << >>
  ELSE IF Len(parts) = 1 THEN parts[1]
  ELSE parts[1] \o sep \o Join(Tail(parts), sep)

\* a line of n columns separated by d, column pos holding cell
RowLine(n, d, pos, cell) ==
  Join([i \in 1..n |-> IF i = pos THEN cell ELSE Cell(i)], <<d>>)

HeaderLine == Join([i \in 1..(FeatureCount + 1) |-> <<QUOTE, "V", QUOTE>>], <<",">>)

CoreRows ==
  { RowLine(FeatureCount, ",", 0, << >>),
    RowLine(FeatureCount + 1, ",", 0, << >>),
    RowLine(FeatureCount, ",", 2, <<"a", "b", "c">>) }

SeqsUpTo(S, n) == UNION { [1..k -> S] : k \in 0..n }

CoreTexts ==
  { Join((IF h THEN <<HeaderLine>> ELSE << >>) \o rows, <<LF>>) :
      h \in BOOLEAN, rows \in SeqsUpTo(CoreRows, MaxRows) }

\* single texts for the other features of the parser: a row one column
\* short, another delimiter, Infinity, a quoted value holding a comma, an
\* empty value, padded values, CR LF line ends with a blank line, only
\* white space
ExtraTexts ==
  { RowLine(FeatureCount, ",", 0, << >>) \o <<LF>> \o RowLine(FeatureCount - 1, ",", 0, << >>),
    RowLine(FeatureCount - 1, ",", 0, << >>) \o <<LF>> \o RowLine(FeatureCount, ",", 0, << >>),
    RowLine(FeatureCount, ",", 0, << >>) \o <<LF>> \o RowLine(FeatureCount + 2, ",", 0, << >>),
    RowLine(FeatureCount, ";", 0, << >>),
    RowLine(FeatureCount + 1, TAB, 0, << >>),
    RowLine(FeatureCount, ",", 2, InfinityChars),
    RowLine(FeatureCount, ",", 2, <<QUOTE, "7", ",", "5", QUOTE>>),
    RowLine(FeatureCount, ",", FeatureCount, << >>),
    RowLine(FeatureCount, ",", 2, <<SP, "4", SP>>),
    HeaderLine \o <<CR, LF, CR, LF>> \o RowLine(FeatureCount, ",", 0, << >>) \o <<CR, LF>>,
    <<SP, LF>> }

CsvName == <<"data", "csv">>
File(name, text) == [name |-> name, text |-> text]

FirstFiles ==
  { File(CsvName, t) : t \in CoreTexts \cup ExtraTexts }
  \cup { File(<<"DATA", "CSV">>, RowLine(FeatureCount, ",", 0, << >>)),
         File(<<"notes", "txt">>, RowLine(FeatureCount, ",", 0, << >>)) }

\* the files offered once a file has been selected
LaterFiles ==
  { File(CsvName, RowLine(FeatureCount, ",", 0, << >>)),
    File(<<"notes", "txt">>, RowLine(FeatureCount, ",", 0, << >>)) }

\* the files offered first when the upload is exercised alone: two rows, and
\* a header with one row
UploadFirstFiles ==
  { File(CsvName, Join(<<RowLine(FeatureCount, ",", 0, << >>),
                         RowLine(FeatureCount + 1, ",", 0, << >>)>>, <<LF>>)),
    File(CsvName, Join(<<HeaderLine, RowLine(FeatureCount, ",", 0, << >>)>>, <<LF>>)) }

\* the files the selection number n can pick
Offered(n) ==
  IF n > 0 THEN LaterFiles
  ELSE IF focus = "csvR" THEN UploadFirstFiles
  ELSE FirstFiles

\* String.prototype.toLowerCase on the extensions of the model
ToLowerCase(s) == IF s = "CSV" THEN "csv" ELSE s

\* file.name.split('.').pop()?.toLowerCase()
FileExtension(name) == ToLowerCase(name[Len(name)])

-----------------------------------------------------------------------------
(* ManualPrediction, CSV upload: the handlers *)

Read(file, readId) == [file |-> file, id |-> readId]

\* handleFileChange up to reader.readAsText(file)
handleFileChange ==
  /\ focus \in CsvPages /\ edits < SelectionLimit
  /\ \E file \in Offered(edits) :
       IF FileExtension(file.name) # "csv"
         THEN /\ toast' = Toast("error", "Invalid file format! Please upload a CSV file (.csv extension only).")
              /\ csvFile' = Null
              /\ csvData' = << >>
              /\ UNCHANGED <<csvParsing, readers, batchResults, showBatchResults>>
         ELSE /\ csvFile' = file.name
              /\ csvData' = << >>
              /\ batchResults' = << >>
              /\ showBatchResults' = FALSE
              /\ csvParsing' = TRUE
              /\ readers' = readers \cup {Read(file, edits)}
              /\ toast' = toast
  /\ edits' = edits + 1
  /\ loadedText' = << >>
  /\ UNCHANGED <<focus, detailsVars, scoreVars, restVars, utilVars, network, formVars, batchLoading, batchProgress, batch>>

\* reader.onload
readerOnload ==
  /\ focus \in CsvPages
  /\ \E r \in readers :
       /\ readers' = readers \ {r}
       /\ loadedText' = r.file.text
       /\ LET text == r.file.text
              lines == NonBlankLines(SplitLines(text))
              parsedData == ParseRows(lines, 1)
          IN IF Trim(text) = << >>
               THEN /\ toast' = Toast("error", "CSV file is empty.")
                    /\ csvFile' = Null
                    /\ csvData' = << >>
                    /\ csvParsing' = csvParsing
             ELSE IF Len(lines) = 0
               THEN /\ toast' = Toast("error", "No data found in CSV file.")
                    /\ csvFile' = Null
                    /\ csvData' = << >>
                    /\ csvParsing' = csvParsing
             ELSE IF Len(parsedData) = 0
               THEN /\ toast' = Toast("error", "No valid transaction data found in CSV.")
                    /\ csvFile' = Null
                    /\ csvData' = << >>
                    /\ csvParsing' = FALSE
             ELSE /\ toast' = Toast("success", "Successfully loaded transaction(s) from CSV.")
                  /\ csvFile' = csvFile
                  /\ csvData' = parsedData
                  /\ csvParsing' = FALSE
  /\ UNCHANGED <<focus, detailsVars, scoreVars, restVars, utilVars, network, formVars, edits, batchVars>>

\* reader.onerror: the handler assigned last replaces the first one
readerOnerror ==
  /\ focus \in CsvPages
  /\ \E r \in readers : readers' = readers \ {r}
  /\ toast' = Toast("error", "Error reading file.")
  /\ csvFile' = Null
  /\ UNCHANGED <<focus, detailsVars, scoreVars, restVars, utilVars, network, formVars, edits, csvData, csvParsing, loadedText, batchVars>>

-----------------------------------------------------------------------------
(* ManualPrediction, batch prediction *)

NoBatch ==
  [running |-> FALSE, rows |-> << >>, i |-> 0, results |-> << >>,
   fraudCount |-> 0, legitimateCount |-> 0, errorCount |-> 0]

SuccessResult(transactionId, o) ==
  [transactionId |-> transactionId, prediction |-> o.prediction, probability |-> o.probability,
   status |-> "success", errorMessage |-> "-"]
ErrorResult(transactionId, message) ==
  [transactionId |-> transactionId, prediction |-> "Error", probability |-> 0,
   status |-> "error", errorMessage |-> message]

\* the try block after a successful await: push the result and count it
PushSuccess(b, o) ==
  [b EXCEPT !.results = Append(@, SuccessResult(b.i + 1, o)),
            !.fraudCount = IF o.prediction = "Fraudulent" THEN @ + 1 ELSE @,
            !.legitimateCount = IF o.prediction = "Fraudulent" THEN @ ELSE @ + 1,
            !.i = @ + 1]

\* a catch block that pushes the 'Error' entry and leaves the loop
PushErrorAndStop(b, message) ==
  [b EXCEPT !.results = Append(@, ErrorResult(b.i + 1, message)),
            !.errorCount = @ + 1,
            !.i = Len(b.rows)]

\* the catch block: count the error and push an 'Error' entry
PushError(b, message) ==
  [b EXCEPT !.results = Append(@, ErrorResult(b.i + 1, message)),
            !.errorCount = @ + 1,
            !.i = @ + 1]

\* iterations that end without an await: predictTransaction throws at once
RECURSIVE SkipRejected(_)
SkipRejected(b) ==
  IF b.i < Len(b.rows) /\ PredictRejects(b.rows[b.i + 1].features)
    THEN SkipRejected(PushError(b, ShapeError))
    ELSE b

\* ((i + 1) / csvData.length) * 100, kept as a whole percentage
Progress(b) == (b.i * 100) \div Len(b.rows)

BatchToast(b) ==
  [level |-> "success", msg |-> "Batch prediction complete!",
   counts |-> <<Len(b.rows), b.fraudCount, b.legitimateCount, b.errorCount>>]

BatchRequest(b) ==
  Request("batch", b.rows[b.i + 1].features,
          [j \in 1..Len(b.rows[b.i + 1].cells) |-> RawText(b.rows[b.i + 1].cells[j])])

\* the loop has reached its end: setBatchResults(results),
\* setBatchLoading(false) and the summary toast
FinishBatch(b) ==
  /\ batch' = NoBatch
  /\ batchProgress' = Progress(b)
  /\ batchResults' = b.results
  /\ batchLoading' = FALSE
  /\ toast' = BatchToast(b)

\* handleBatchPredict up to its first await (or to its end); the button is
\* rendered only while csvData is not empty and is disabled while a run is
\* in progress; the run keeps the csvData of the render that started it
handleBatchPredict ==
  /\ focus \in CsvPages /\ ~batchLoading /\ Len(csvData) > 0
  /\ showBatchResults' = TRUE
  /\ LET b == SkipRejected([NoBatch EXCEPT !.running = TRUE, !.rows = csvData])
     IN IF b.i < Len(b.rows)
          THEN /\ batch' = b
               /\ network' = network \cup {BatchRequest(b)}
               /\ batchProgress' = IF b.i > 0 THEN Progress(b) ELSE 0
               /\ batchResults' = << >>
               /\ batchLoading' = TRUE
               /\ toast' = toast
          ELSE /\ FinishBatch(b)
               /\ network' = network
  /\ UNCHANGED <<focus, detailsVars, scoreVars, restVars, utilVars, formVars, edits, csvVars>>

\* the answer to the request of row i: the result is pushed, the progress
\* set, and the loop goes on to its next await or to its end
batchResponse ==
  /\ focus \in CsvPages /\ batch.running
  /\ \E r \in network, o \in BatchOutcomes :
       /\ r.origin = "batch"
       /\ LET b == SkipRejected(IF o.ok THEN PushSuccess(batch, o)
                                       ELSE PushError(batch, o.message))
          IN IF b.i < Len(b.rows)
               THEN /\ batch' = b
                    /\ network' = (network \ {r}) \cup {BatchRequest(b)}
                    /\ batchProgress' = Progress(b)
                    /\ UNCHANGED <<batchResults, batchLoading, toast>>
               ELSE /\ FinishBatch(b)
                    /\ network' = network \ {r}
  /\ UNCHANGED <<focus, detailsVars, scoreVars, restVars, utilVars, formVars, edits, csvVars, showBatchResults>>

-----------------------------------------------------------------------------
(* ViewTransactionDetails: the replies of the API *)

TopK == 15          \* entries kept by topFeatures
MaxShapLen == 3     \* explanations of 0 .. MaxShapLen features, all enumerated
ShapValues == {-2, -1, 0, 1, 2}

NoTransaction == [id |-> "", amount |-> 0, risk_score |-> 0, prediction |-> "-"]
NoExplanation ==
  [transaction_id |-> "", prediction |-> "-", shap_values |-> << >>,
   feature_names |-> << >>, feature_values |-> << >>, loaded |-> FALSE]

\* the transactions the backend holds
Stored(txId) ==
  IF txId = "tx-1"
    THEN [id |-> "tx-1", amount |-> 250000, risk_score |-> 9500, prediction |-> "Fraudulent"]
    ELSE [id |-> "tx-2", amount |-> 8835, risk_score |-> 1000, prediction |-> "Legitimate"]
KnownIds == {"tx-1", "tx-2"}
RouteIds == KnownIds \cup {"", "unknown-id"}
ReturnPaths == {"/transactions", "/dashboard"}

\* an explanation: three parallel arrays over the hybrid features
FeatureName(i) == "F" \o ToString(i)
FeatureValue(i) == 100 + 7 * i
Explanation(txId, shap) ==
  [transaction_id |-> txId, prediction |-> Stored(txId).prediction,
   shap_values |-> shap,
   feature_names |-> [i \in 1..Len(shap) |-> FeatureName(i)],
   feature_values |-> [i \in 1..Len(shap) |-> FeatureValue(i)],
   loaded |-> TRUE]

\* attributions of more features than topFeatures keeps, with equal magnitudes
LongShap(k) == [i \in 1..(TopK + 2) |-> ((i * k) % 5) - 2]
\* attributions of more features than topFeatures keeps, none of them 0
DenseShap == [i \in 1..(TopK + 2) |-> IF i % 3 = 0 THEN -1 ELSE 2]
ShapVectors ==
  UNION { [1..n -> ShapValues] : n \in 0..MaxShapLen }
    \cup { LongShap(3), LongShap(7), DenseShap }

\* a reply: data on success, otherwise the error axios rejects with
OkReply(data) == [ok |-> TRUE, data |-> data, hasResponse |-> TRUE, status |-> 200, detail |-> ""]
FailReply(hasResponse, status, detail) ==
  [ok |-> FALSE, data |-> NoTransaction, hasResponse |-> hasResponse,
   status |-> status, detail |-> detail]
NotFound == FailReply(TRUE, 404, "Transaction not found")
NetworkError == FailReply(FALSE, 0, "")
ServerError == FailReply(TRUE, 500, "")

TransactionReplies(txId) ==
  IF txId \in KnownIds
    THEN {OkReply(Stored(txId)), NetworkError, ServerError}
    ELSE {NotFound, NetworkError}

ExplanationReplies(txId) ==
  IF txId \in KnownIds
    THEN { OkReply(Explanation(txId, shap)) : shap \in ShapVectors }
         \cup {NetworkError, ServerError,
               FailReply(TRUE, 500, "Failed to generate explanation")}
    ELSE {NotFound, NetworkError}

-----------------------------------------------------------------------------
(* ViewTransactionDetails: the effect and fetchData *)

\* error.response.data.detail || fallback, without the optional chaining
detailOrFail(error, fallback) ==
  IF ~error.hasResponse THEN Threw("TypeError")
  ELSE IF error.detail # "" THEN Returned(error.detail)
  ELSE Returned(fallback)

\* error.response?.data?.detail || fallback
detailOr(error, fallback) ==
  IF error.hasResponse /\ error.detail # "" THEN Returned(error.detail)
  ELSE Returned(fallback)

\* the catch block of the transaction request
catchTransaction(message) ==
  /\ toasts' = Append(toasts, Toast("error", message))
  /\ navigated' = Append(navigated, returnPath)

\* a catch block of the explanation request that also leaves the page
catchExplanationAndLeave(message) ==
  /\ toasts' = Append(toasts, Toast("error", message))
  /\ navigated' = Append(navigated, returnPath)

\* the catch block of the explanation request
catchExplanation(message) ==
  /\ toasts' = Append(toasts, Toast("error", message))
  /\ UNCHANGED navigated

pageVars ==
  <<utilVars, network, time, amount, vFeatures, result, toast, edits, csvVars,
    batchVars>>

\* the effect run on mount
mountEffect ==
  /\ focus = "details" /\ pc = "mount"
  /\ IF id = ""
       THEN /\ toasts' = Append(toasts, Toast("error", "Transaction ID not provided"))
            /\ navigated' = Append(navigated, returnPath)
            /\ pc' = "returned"
            /\ UNCHANGED <<loading, fetchData>>
       ELSE /\ loading' = TRUE
            /\ fetchData' = "pending"
            /\ pc' = "awaitTransaction"
            /\ UNCHANGED <<toasts, navigated>>
  /\ UNCHANGED <<focus, id, returnPath, transaction, explanation,
                 explanationLoading, replies, pageVars, scoreVars, restVars>>

\* fetchData resumes after await apiService.getTransaction(id)
transactionReply ==
  /\ focus = "details" /\ pc = "awaitTransaction"
  /\ \E reply \in TransactionReplies(id) :
       /\ replies' = Append(replies, reply)
       /\ loading' = FALSE
       /\ IF reply.ok
            THEN /\ transaction' = reply.data
                 /\ explanationLoading' = TRUE
                 /\ pc' = "awaitExplanation"
                 /\ UNCHANGED <<toasts, navigated, fetchData>>
            ELSE LET message == detailOr(reply, "Failed to load transaction details")
                 IN IF message.kind = "throw"
                      THEN /\ fetchData' = "rejected"
                           /\ pc' = "done"
                           /\ UNCHANGED <<transaction, explanationLoading, toasts, navigated>>
                      ELSE /\ catchTransaction(message.value)
                           /\ explanationLoading' = TRUE
                           /\ pc' = "awaitExplanation"
                           /\ UNCHANGED <<transaction, fetchData>>
  /\ UNCHANGED <<focus, id, returnPath, explanation, pageVars, scoreVars, restVars>>

\* fetchData resumes after await apiService.getTransactionExplanation(id)
explanationReply ==
  /\ focus = "details" /\ pc = "awaitExplanation"
  /\ \E reply \in ExplanationReplies(id) :
       /\ replies' = Append(replies, reply)
       /\ explanationLoading' = FALSE
       /\ pc' = "done"
       /\ IF reply.ok
            THEN /\ explanation' = reply.data
                 /\ fetchData' = "fulfilled"
                 /\ UNCHANGED <<toasts, navigated>>
            ELSE LET message == detailOr(reply, "Failed to load SHAP explanation")
                 IN IF message.kind = "throw"
                      THEN /\ fetchData' = "rejected"
                           /\ UNCHANGED <<explanation, toasts, navigated>>
                      ELSE /\ catchExplanation(message.value)
                           /\ fetchData' = "fulfilled"
                           /\ UNCHANGED explanation
  /\ UNCHANGED <<focus, id, returnPath, transaction, loading, pageVars, scoreVars, restVars>>

-----------------------------------------------------------------------------
(* ViewTransactionDetails: topFeatures and what is rendered *)

Abs(x) == IF x < 0 THEN -x ELSE x

\* a comparator on the signed values
compareSigned(a, b) == b.shap_value - a.shap_value

\* (a, b) => Math.abs(b.shap_value) - Math.abs(a.shap_value)
compareMagnitude(a, b) == Abs(b.shap_value) - Abs(a.shap_value)

\* the entry of feature i with the feature value of its neighbour
EntryOffByOne(exp, i) ==
  [name |-> IF exp.feature_names[i] # "" THEN exp.feature_names[i]
            ELSE "Feature " \o ToString(i - 1),
   shap_value |-> exp.shap_values[i],
   feature_value |-> exp.feature_values[IF i < Len(exp.shap_values) THEN i + 1 ELSE 1],
   index |-> i - 1]

\* the object map() builds for element i (index i - 1 in the code)
Entry(exp, i) ==
  [name |-> IF exp.feature_names[i] # "" THEN exp.feature_names[i]
            ELSE "Feature " \o ToString(i - 1),
   shap_value |-> exp.shap_values[i],
   feature_value |-> exp.feature_values[i],
   index |-> i - 1]

\* Array.prototype.sort is stable: e goes after every element that does not
\* compare greater than it
InsertStable(sorted, e) ==
  LET after == { k \in 1..Len(sorted) : compareMagnitude(sorted[k], e) <= 0 }
      at == IF after = {} THEN 0
            ELSE CHOOSE k \in after : \A m \in after : m <= k
  IN SubSeq(sorted, 1, at) \o <<e>> \o SubSeq(sorted, at + 1, Len(sorted))

RECURSIVE SortFrom(_, _, _)
SortFrom(entries, i, sorted) ==
  IF i > Len(entries) THEN sorted
  ELSE SortFrom(entries, i + 1, InsertStable(sorted, entries[i]))

\* shap_values.map(...).sort(...)
Ranked(exp) ==
  SortFrom([i \in 1..Len(exp.shap_values) |-> Entry(exp, i)], 1, << >>)

Slice(s, n) == SubSeq(s, 1, IF Len(s) < n THEN Len(s) ELSE n)

topFeatures ==
  IF explanation.loaded THEN Slice(Ranked(explanation), TopK) ELSE << >>

\* entries.filter(keep).length, with keep given as a set of SHAP values
CountWhere(entries, keep) ==
  Cardinality({i \in 1..Len(entries) : entries[i].shap_value \in keep})

\* entries.reduce((sum, f) => sum + f.shap_value, 0) over the first n entries
RECURSIVE ReduceSum(_, _)
ReduceSum(entries, n) ==
  IF n = 0 THEN 0 ELSE ReduceSum(entries, n - 1) + entries[n].shap_value

\* the numbers of the "Summary" paragraph, taken from the given entries;
\* SHAP values are whole units here, so toFixed(4) keeps them apart
SummaryOf(entries) ==
  [increasing |-> CountWhere(entries, {v \in ShapValues : v > 0}),
   decreasing |-> CountWhere(entries, {v \in ShapValues : v < 0}),
   total |-> ReduceSum(entries, Len(entries))]

\* the summary paragraph of the explanation card
Summary == SummaryOf(topFeatures)

\* what the component renders
ExplanationCard ==
  IF explanationLoading THEN [shows |-> "skeleton", entries |-> << >>]
  ELSE IF explanation.loaded THEN [shows |-> "features", entries |-> topFeatures]
  ELSE [shows |-> "SHAP explanation not available", entries |-> << >>]

View ==
  IF loading THEN [shows |-> "skeleton", transaction |-> NoTransaction,
                   card |-> [shows |-> "-", entries |-> << >>]]
  ELSE IF transaction = NoTransaction
    THEN [shows |-> "nothing", transaction |-> NoTransaction,
          card |-> [shows |-> "-", entries |-> << >>]]
  ELSE [shows |-> "details", transaction |-> transaction, card |-> ExplanationCard]

DetailsIdle ==
  /\ id = "" /\ returnPath = "/transactions" /\ pc = "unmounted"
  /\ transaction = NoTransaction /\ explanation = NoExplanation
  /\ explanationLoading = FALSE /\ toasts = << >> /\ navigated = << >>
  /\ fetchData = "notCalled" /\ replies = << >>

-----------------------------------------------------------------------------
(* The predict method of the README's FraudDetector sample *)

ProbScale == 100        \* fraud_prob takes the values 0/ProbScale .. ProbScale/ProbScale
ThresholdTenths == 7    \* the 0.7 of fraud_prob > 0.7

NotScored == [is_fraud |-> FALSE, fraud_probability |-> -1, risk_score |-> -1]

\* predict(features), given the probability the model returns; the risk
\* score fraud_prob * 100 is kept in 1/ProbScale of a point
predict(prob) ==
  [is_fraud |-> prob * 10 > ThresholdTenths * ProbScale,
   fraud_probability |-> prob,
   risk_score |-> prob * 100]

callPredict ==
  /\ focus = "scoring"
  /\ \E prob \in 0..ProbScale :
       /\ fraud_prob' = prob
       /\ scored' = predict(prob)
  /\ UNCHANGED <<focus, loading, pageVars, detailsVars, restVars>>

ScoreIdle == fraud_prob = 0 /\ scored = NotScored

-----------------------------------------------------------------------------
(* The scoring engine of the backend: soft voting over the member models,   *)
(* the threshold decision and the Shapley attribution.  A member model is   *)
(* given by its value on every coalition of the attributed features: its    *)
(* probability with the features of the coalition taken from the input and  *)
(* the others averaged out.  Probabilities are counted in 1/ProbScale.      *)

MemberCount == 3          \* "all three models"
HybridCount == 3          \* features of the vector the engine attributes
MaxCalls == 2             \* predict calls that may run at once
ThresholdPermille == 898  \* the 89.8% decision threshold

Members == 1..MemberCount
Features == 1..HybridCount
Callers == 1..MaxCalls
Kinds == {"linear", "pair", "any"}
EngineInputs == {"zeros", "fixture"}

RECURSIVE SetSum(_)
SetSum(f) ==
  IF DOMAIN f = {} THEN 0
  ELSE LET a == CHOOSE a \in DOMAIN f : TRUE
       IN f[a] + SetSum([b \in DOMAIN f \ {a} |-> f[b]])

RECURSIVE Factorial(_)
Factorial(n) == IF n <= 0 THEN 1 ELSE n * Factorial(n - 1)

\* what feature j of input x adds to the linear member
Contribution(x, j) ==
  IF x = "zeros" THEN 0
  ELSE IF j = 1 THEN 40
  ELSE IF j % 2 = 0 THEN -5 ELSE 10

\* the probability a member of the kind gives input x on coalition S
MemberValue(kind, x, S) ==
  IF kind = "linear" THEN 10 + SetSum([j \in S |-> Contribution(x, j)])
  ELSE IF kind = "pair" THEN 20 + (IF x = "fixture" /\ {1, 2} \subseteq S THEN 60 ELSE 0)
  ELSE 5 + (IF x = "fixture" /\ S # {} THEN 90 ELSE 0)

\* p_i = model_i.predictProbabilityOfPositiveClass(vector)
predictProbability(i, x) == MemberValue(ensemble.kinds[i], x, Features)

\* w_i: 1 unless weights are configured
Weight(i) == IF ensemble.weights = << >> THEN 1 ELSE ensemble.weights[i]

\* a divisor that ignores the configured weights
MemberCountAsTotal == MemberCount

\* the divisor of soft voting
TotalWeight == SetSum([i \in Members |-> Weight(i)])

\* one accumulator shared by all calls
SharedAccumulator(c) == 1

\* the accumulator of call c: local to the call
Accumulator(c) == c

\* verdict = Fraudulent if probability >= threshold else Legitimate
decide(num, den) ==
  IF num * 1000 >= ThresholdPermille * ProbScale * den THEN "Fraudulent" ELSE "Legitimate"

IdleCall == [pc |-> "idle", input |-> "-", next |-> 0, num |-> 0, den |-> 1, verdict |-> "-"]

\* predict(rawFeatures) is called; the callers are interchangeable, so a new
\* call takes the first free place
startPredict ==
  /\ focus = "engine"
  /\ \E c \in Callers, x \in EngineInputs :
       /\ calls[c].pc = "idle" /\ \A d \in 1..(c - 1) : calls[d].pc # "idle"
       /\ calls' = [calls EXCEPT ![c] = [IdleCall EXCEPT !.pc = "scoring", !.input = x, !.next = 1]]
       /\ acc' = [acc EXCEPT ![Accumulator(c)] = 0]
  /\ UNCHANGED <<focus, ensemble, attribution, loading, pageVars, detailsVars, scoreVars, notEngine>>

\* the next member model scores the vector of a call
scoreMember ==
  /\ focus = "engine"
  /\ \E c \in Callers :
       /\ calls[c].pc = "scoring" /\ calls[c].next <= MemberCount
       /\ acc' = [acc EXCEPT ![Accumulator(c)] =
                    @ + Weight(calls[c].next) * predictProbability(calls[c].next, calls[c].input)]
       /\ calls' = [calls EXCEPT ![c].next = @ + 1]
  /\ UNCHANGED <<focus, ensemble, attribution, loading, pageVars, detailsVars, scoreVars, notEngine>>

\* the weighted sum is divided and the threshold applied
finishPredict ==
  /\ focus = "engine"
  /\ \E c \in Callers :
       /\ calls[c].pc = "scoring" /\ calls[c].next > MemberCount
       /\ calls' = [calls EXCEPT ![c].pc = "done",
                                 ![c].num = acc[Accumulator(c)],
                                 ![c].den = TotalWeight,
                                 ![c].verdict = decide(acc[Accumulator(c)], TotalWeight)]
  /\ UNCHANGED <<focus, ensemble, acc, attribution, loading, pageVars, detailsVars, scoreVars, notEngine>>

\* every coalition size weighted alike
CoalitionWeightUniform(k) == 1

\* |S|! (n - |S| - 1)!, the Shapley weight of a coalition of k features (times n!)
CoalitionWeight(k) == Factorial(k) * Factorial(HybridCount - k - 1)

\* the attribution of feature j by one member, times n!
MemberAttribution(kind, x, j) ==
  SetSum([S \in SUBSET (Features \ {j}) |->
            CoalitionWeight(Cardinality(S))
              * (MemberValue(kind, x, S \cup {j}) - MemberValue(kind, x, S))])

\* the weighted reduction of §4.4 applied to a per-member quantity
WeightedSum(q) == SetSum([i \in Members |-> Weight(i) * q[i]])

NoAttribution ==
  [input |-> "-", base_value |-> 0, shap_values |-> << >>,
   prediction_probability |-> 0, den |-> 1]

\* explain: all values are counted in 1/(ProbScale * den)
Explain(x) ==
  [input |-> x,
   base_value |->
     Factorial(HybridCount) * WeightedSum([i \in Members |-> MemberValue(ensemble.kinds[i], x, {})]),
   shap_values |->
     [j \in Features |-> WeightedSum([i \in Members |-> MemberAttribution(ensemble.kinds[i], x, j)])],
   prediction_probability |->
     Factorial(HybridCount) * WeightedSum([i \in Members |-> predictProbability(i, x)]),
   den |-> Factorial(HybridCount) * TotalWeight]

explain ==
  /\ focus = "engine"
  /\ \E x \in EngineInputs : attribution' = Explain(x)
  /\ UNCHANGED <<focus, ensemble, calls, acc, loading, pageVars, detailsVars, scoreVars, notEngine>>

\* the ensembles the service may have loaded at startup
KindOrders == {<<"linear", "pair", "any">>, <<"any", "linear", "pair">>,
               <<"pair", "pair", "linear">>, <<"any", "any", "pair">>}
Ensembles ==
  { [kinds |-> [i \in Members |-> k[((i - 1) % 3) + 1]], weights |-> w] :
      k \in KindOrders, w \in {<< >>, [i \in Members |-> i]} }

EngineIdle ==
  /\ ensemble = [kinds |-> [i \in Members |-> "linear"], weights |-> << >>]
  /\ calls = [c \in Callers |-> IdleCall]
  /\ acc = [c \in Callers |-> 0]
  /\ attribution = NoAttribution


-----------------------------------------------------------------------------
(* The API client: the request interceptor that adds the Firebase token *)

MaxRequests == 2      \* requests made through the client
Endpoints == {"/predict", "/api/stats", "/api/transactions", "/api/user/profile"}
Users == {"alice", "bob"}
NoUser == "none"
NoHeader == "-"

\* `Bearer ${token}` of the ID token of a user
Bearer(user) == "Bearer token-" \o user

SentRequest(n, endpoint, user, authorization) ==
  [n |-> n, endpoint |-> endpoint, user |-> user, Authorization |-> authorization]

RequestsMade == Cardinality(pending) + Cardinality(sent)

\* Firebase auth state changes
signIn ==
  /\ focus = "client" /\ currentUser = NoUser
  /\ \E u \in Users : currentUser' = u
  /\ UNCHANGED <<focus, pending, sent, loading, pageVars, detailsVars, scoreVars, notClient>>

signOut ==
  /\ focus = "client" /\ currentUser # NoUser
  /\ currentUser' = NoUser
  /\ UNCHANGED <<focus, pending, sent, loading, pageVars, detailsVars, scoreVars, notClient>>

\* the interceptor runs for a request: without a user the config is returned
\* at once, with a user it awaits user.getIdToken()
interceptRequest ==
  /\ focus = "client" /\ RequestsMade < MaxRequests
  /\ \E e \in Endpoints :
       IF currentUser # NoUser
         THEN /\ pending' = pending \cup {SentRequest(RequestsMade + 1, e, currentUser, NoHeader)}
              /\ UNCHANGED sent
         ELSE /\ sent' = sent \cup {SentRequest(RequestsMade + 1, e, NoUser, NoHeader)}
              /\ UNCHANGED pending
  /\ UNCHANGED <<focus, currentUser, loading, pageVars, detailsVars, scoreVars, notClient>>

\* getIdToken resolved: the header is set and the config returned
tokenResolved ==
  /\ focus = "client"
  /\ \E p \in pending :
       /\ pending' = pending \ {p}
       /\ sent' = sent \cup {[p EXCEPT !.Authorization = Bearer(p.user)]}
  /\ UNCHANGED <<focus, currentUser, loading, pageVars, detailsVars, scoreVars, notClient>>

\* getIdToken rejected: the error is logged and the config returned as it is
tokenRejected ==
  /\ focus = "client"
  /\ \E p \in pending :
       /\ pending' = pending \ {p}
       /\ sent' = sent \cup {p}
  /\ UNCHANGED <<focus, currentUser, loading, pageVars, detailsVars, scoreVars, notClient>>

ClientIdle == currentUser = NoUser /\ pending = {} /\ sent = {}

-----------------------------------------------------------------------------
(* The polling pages: Dashboard and TransactionHistory.  Their effect runs  *)
(* the fetch once, arms setInterval(fetch, 5000) and returns a cleanup that *)
(* clears the interval.  Time is counted in seconds; a timer that is due    *)
(* fires before the clock moves on.  Each poll's response carries the       *)
(* number of the poll as its data.                                          *)

PollSeconds == 5
MaxClock == 11

PollPages == {"Dashboard", "TransactionHistory"}

NoInterval == [armed |-> FALSE, due |-> 0]

\* setInterval(fetchData, 5000) called at second t
setInterval(t) == [armed |-> TRUE, due |-> t + PollSeconds]

cleanupKeepsInterval(i) == i

\* the effect's cleanup: clearInterval(intervalId)
cleanup(i) == [i EXCEPT !.armed = FALSE]

NothingShown == [stats |-> 0, transactions |-> 0, error |-> FALSE]

\* setStats(statsData); setTransactions(converted); setError(null)
ShownData(k) == [stats |-> k, transactions |-> k, error |-> FALSE]

\* setError(message); setStats(zeros); setTransactions([])
ShownError == [stats |-> 0, transactions |-> 0, error |-> TRUE]

\* the synchronous part of fetchData / fetchTransactions up to its await
StartPoll(t) ==
  /\ polls' = Append(polls, [at |-> t, state |-> "pending"])
  /\ pollLoading' =
       IF pollPage = "TransactionHistory" \/ initialLoad THEN TRUE ELSE pollLoading

\* the effect of the page: fetch, then setInterval
mountPage ==
  /\ focus = "poll" /\ mounted = "no"
  /\ mounted' = "yes"
  /\ StartPoll(now)
  /\ interval' = setInterval(now)
  /\ UNCHANGED <<focus, pollPage, now, shown, initialLoad, loading, pageVars,
                 detailsVars, scoreVars, notPoll>>

\* a second passes; a due timer fires first
tick ==
  /\ focus = "poll" /\ mounted # "no" /\ now < MaxClock
  /\ ~(interval.armed /\ interval.due = now)
  /\ now' = now + 1
  /\ UNCHANGED <<focus, pollPage, mounted, interval, polls, shown, pollLoading,
                 initialLoad, loading, pageVars, detailsVars, scoreVars, notPoll>>

\* the interval fires: the callback starts a fetch, the timer is re-armed
intervalFires ==
  /\ focus = "poll" /\ interval.armed /\ interval.due = now
  /\ StartPoll(now)
  /\ interval' = [interval EXCEPT !.due = now + PollSeconds]
  /\ UNCHANGED <<focus, pollPage, mounted, now, shown, initialLoad, loading,
                 pageVars, detailsVars, scoreVars, notPoll>>

\* the awaited request of poll k settles: try / catch / finally.  After the
\* unmount the component's state is gone and the setters have no effect.
pollSettles ==
  /\ focus = "poll"
  /\ \E k \in 1..Len(polls), outcome \in {"ok", "failed"} :
       /\ polls[k].state = "pending"
       /\ polls' = [polls EXCEPT ![k].state = outcome]
       /\ initialLoad' = FALSE
       /\ IF mounted = "yes"
            THEN /\ shown' = IF outcome = "ok" THEN ShownData(k) ELSE ShownError
                 /\ pollLoading' = FALSE
            ELSE UNCHANGED <<shown, pollLoading>>
  /\ UNCHANGED <<focus, pollPage, mounted, now, interval, loading, pageVars,
                 detailsVars, scoreVars, notPoll>>

\* the page is left: React runs the effect's cleanup
unmountPage ==
  /\ focus = "poll" /\ mounted = "yes"
  /\ mounted' = "gone"
  /\ interval' = cleanup(interval)
  /\ UNCHANGED <<focus, pollPage, now, polls, shown, pollLoading, initialLoad,
                 loading, pageVars, detailsVars, scoreVars, notPoll>>

PollIdle ==
  /\ pollPage = "Dashboard" /\ mounted = "no" /\ now = 0 /\ interval = NoInterval
  /\ polls = << >> /\ shown = NothingShown /\ pollLoading = TRUE
  /\ initialLoad = TRUE

-----------------------------------------------------------------------------
(* Risk bands.  The dashboard counts its transactions per band for the pie  *)
(* chart (riskDistribution) and its TransactionTable renders one RiskScore  *)
(* component per row.                                                       *)

Scores == 0..100
EdgeScores == {0, 39, 40, 41, 69, 70, 71, 100}

\* RiskScore.getRiskLabel
getRiskLabel(score) ==
  IF score <= 40 THEN "Low"
  ELSE IF score <= 70 THEN "Medium"
  ELSE "High"

\* the filters of riskDistribution, in the order of its entries
CountedAs(band, riskScore) ==
  CASE band = "High" -> riskScore >= 70
    [] band = "Medium" -> riskScore >= 40 /\ riskScore < 70
    [] band = "Low" -> riskScore < 40

Bands == {"High", "Medium", "Low"}

NoDistribution == [b \in Bands |-> -1]

\* transactions.filter(...).length for each band
RiskDistribution(ts) ==
  [b \in Bands |-> Cardinality({i \in 1..Len(ts) : CountedAs(b, ts[i])})]

\* TransactionTable renders the RiskScore of its next row
renderRiskScore ==
  /\ focus = "bands" /\ Len(labels) < Len(scores)
  /\ labels' = Append(labels, getRiskLabel(scores[Len(labels) + 1]))
  /\ UNCHANGED <<focus, scores, riskDistribution, loading, pageVars,
                 detailsVars, scoreVars, notBand>>

\* the useMemo of the dashboard computes the pie chart's counts
computeRiskDistribution ==
  /\ focus = "bands" /\ riskDistribution = NoDistribution
  /\ riskDistribution' = RiskDistribution(scores)
  /\ UNCHANGED <<focus, scores, labels, loading, pageVars, detailsVars,
                 scoreVars, notBand>>

BandIdle ==
  scores = << >> /\ labels = << >> /\ riskDistribution = NoDistribution


-----------------------------------------------------------------------------
(* Profile: the password card.  Passwords are sequences of UTF-16 code      *)
(* units, so Len is the string's length.  Firebase accepts a credential     *)
(* when its password is the account's; any call to it can also fail for     *)
(* another reason (network, weak password).                                 *)

MaxPwEdits == 4
MaxUpdateCalls == 2
MinPasswordLength == 6

Pw(n, c) == [i \in 1..n |-> c]

Passwords == {Pw(0, "a"), Pw(5, "a"), Pw(6, "a"), Pw(7, "b")}
InitialPassword == Pw(6, "a")

PasswordFields == {"currentPassword", "newPassword", "confirmPassword"}

SignedOut == [signedIn |-> FALSE, email |-> FALSE]
ProfileUsers == {[signedIn |-> TRUE, email |-> TRUE], [signedIn |-> TRUE, email |-> FALSE]}

EmptyPasswordData == [f \in PasswordFields |-> << >>]

NotRunning == [pc |-> "idle", data |-> EmptyPasswordData, reauthenticated |-> FALSE]

NoPwToast == ""

PwErrorToasts ==
  {"Please fill in all password fields", "New passwords do not match",
   "Password must be at least 6 characters", "Current password is incorrect",
   "Password is too weak", "Failed to update password: User email not found",
   "Failed to update password: Unknown error"}

\* !user || !passwordData.currentPassword || !passwordData.newPassword
MissingField(u, d) ==
  ~u.signedIn \/ d.currentPassword = << >> \/ d.newPassword = << >>

TooShortNever(p) == FALSE

\* passwordData.newPassword.length < 6
TooShort(p) == Len(p) < MinPasswordLength

\* the toast of the catch block for an error code
CatchToast(code) ==
  CASE code = "auth/wrong-password" -> "Current password is incorrect"
    [] code = "auth/weak-password" -> "Password is too weak"
    [] code = "no-email" -> "Failed to update password: User email not found"
    [] OTHER -> "Failed to update password: Unknown error"

\* onAuthStateChanged delivers the signed-in user: setUser(currentUser)
authStateChanged ==
  /\ focus = "profile" /\ ~profileUser.signedIn
  /\ profileUser' \in ProfileUsers
  /\ UNCHANGED <<focus, passwordData, saving, pwRun, pwToast, pwEdits,
                 accountPassword, updateCalls, loading, pageVars, detailsVars,
                 scoreVars, notProfile>>

\* onChange of one of the three inputs (they stay enabled while saving)
editPasswordField ==
  /\ focus = "profile" /\ pwEdits < MaxPwEdits
  /\ \E f \in PasswordFields, v \in Passwords :
       /\ passwordData[f] # v
       /\ passwordData' = [passwordData EXCEPT ![f] = v]
  /\ pwEdits' = pwEdits + 1
  /\ UNCHANGED <<focus, profileUser, saving, pwRun, pwToast, accountPassword,
                 updateCalls, loading, pageVars, detailsVars, scoreVars,
                 notProfile>>

\* click on "Update Password" (disabled while saving or without an email):
\* the handler up to its first await
handlePasswordUpdate ==
  /\ focus = "profile" /\ ~saving /\ profileUser.email
  /\ Len(updateCalls) < MaxUpdateCalls
  /\ IF MissingField(profileUser, passwordData)
       THEN /\ pwToast' = "Please fill in all password fields"
            /\ UNCHANGED <<saving, pwRun>>
     ELSE IF passwordData.newPassword # passwordData.confirmPassword
       THEN /\ pwToast' = "New passwords do not match"
            /\ UNCHANGED <<saving, pwRun>>
     ELSE IF TooShort(passwordData.newPassword)
       THEN /\ pwToast' = "Password must be at least 6 characters"
            /\ UNCHANGED <<saving, pwRun>>
     ELSE IF ~profileUser.email
       THEN /\ pwToast' = CatchToast("no-email")
            /\ UNCHANGED <<saving, pwRun>>
     ELSE /\ saving' = TRUE
          /\ pwRun' = [pc |-> "reauth", data |-> passwordData,
                       reauthenticated |-> FALSE]
          /\ UNCHANGED pwToast
  /\ UNCHANGED <<focus, profileUser, passwordData, pwEdits, accountPassword,
                 updateCalls, loading, pageVars, detailsVars, scoreVars,
                 notProfile>>

\* await reauthenticateWithCredential(user, credential) settles; when it
\* resolves the handler calls updatePassword(user, newPassword)
reauthSettles ==
  /\ focus = "profile" /\ pwRun.pc = "reauth"
  /\ \E code \in {"ok", "auth/wrong-password", "auth/network-request-failed"} :
       /\ code = "ok" => pwRun.data.currentPassword = accountPassword
       /\ code = "auth/wrong-password" =>
            pwRun.data.currentPassword # accountPassword
       /\ IF code = "ok"
            THEN /\ pwRun' = [pwRun EXCEPT !.pc = "update",
                                           !.reauthenticated = TRUE]
                 /\ updateCalls' = Append(updateCalls, pwRun')
                 /\ UNCHANGED <<saving, pwToast>>
            ELSE /\ pwToast' = CatchToast(code)
                 /\ saving' = FALSE
                 /\ pwRun' = NotRunning
                 /\ UNCHANGED updateCalls
  /\ UNCHANGED <<focus, profileUser, passwordData, pwEdits, accountPassword,
                 loading, pageVars, detailsVars, scoreVars, notProfile>>

\* await updatePassword(user, newPassword) settles
updateSettles ==
  /\ focus = "profile" /\ pwRun.pc = "update"
  /\ \E code \in {"ok", "auth/weak-password", "auth/network-request-failed"} :
       IF code = "ok"
         THEN /\ accountPassword' = pwRun.data.newPassword
              /\ passwordData' = EmptyPasswordData
              /\ pwToast' = "Password updated successfully"
         ELSE /\ pwToast' = CatchToast(code)
              /\ UNCHANGED <<accountPassword, passwordData>>
  /\ saving' = FALSE
  /\ pwRun' = NotRunning
  /\ UNCHANGED <<focus, profileUser, pwEdits, updateCalls, loading, pageVars,
                 detailsVars, scoreVars, notProfile>>

ProfileIdle ==
  /\ profileUser = SignedOut /\ passwordData = EmptyPasswordData
  /\ saving = FALSE /\ pwRun = NotRunning /\ pwToast = NoPwToast /\ pwEdits = 0
  /\ accountPassword = InitialPassword /\ updateCalls = << >>


-----------------------------------------------------------------------------
(* OTPSignIn: the phone step.  The number typed is formatted by             *)
(* otpAuthService.formatPhoneNumber and handed to sendOTP.                  *)

MaxPhoneLen == 3
MaxOtpSends == 2

PLUS == "+"
PhoneChars == {PLUS, "1", "5", SP, "-"}

\* phoneNumber.replace(/\D/g, '')
RECURSIVE RemoveNonDigits(_)
RemoveNonDigits(s) ==
  IF s = << >> THEN << >>
  ELSE IF IsDigit(s[1]) THEN <<s[1]>> \o RemoveNonDigits(Tail(s))
  ELSE RemoveNonDigits(Tail(s))

\* phoneNumber.startsWith('+')
StartsWithPlus(s) == IsPrefix(<<PLUS>>, s)

\* otpAuthService.formatPhoneNumber
formatPhoneNumber(phone) ==
  IF ~StartsWithPlus(phone)
    THEN <<PLUS, "1">> \o RemoveNonDigits(phone)
    ELSE phone

NoOtpError == ""
NotFormatted == [called |-> FALSE, input |-> << >>, output |-> << >>]

\* onChange of the phone input: a character is typed
setPhoneNumber ==
  /\ focus = "otp" /\ otpStep = "phone" /\ ~otpLoading
  /\ Len(phoneNumber) < MaxPhoneLen
  /\ \E c \in PhoneChars : phoneNumber' = Append(phoneNumber, c)
  /\ UNCHANGED <<focus, otpLoading, otpError, otpStep, formattedPhone, otpSends,
                 loading, pageVars, detailsVars, scoreVars, notOtp>>

\* click on "Send OTP" (disabled while loading or when the field is blank):
\* handleSendOTP up to its await of sendOTP
handleSendOTP ==
  /\ focus = "otp" /\ otpStep = "phone" /\ ~otpLoading
  /\ Trim(phoneNumber) # << >>
  /\ otpSends < MaxOtpSends
  /\ otpLoading' = TRUE
  /\ otpError' = NoOtpError
  /\ formattedPhone' = [called |-> TRUE, input |-> phoneNumber,
                        output |-> formatPhoneNumber(phoneNumber)]
  /\ otpSends' = otpSends + 1
  /\ UNCHANGED <<focus, phoneNumber, otpStep, loading, pageVars, detailsVars,
                 scoreVars, notOtp>>

\* sendOTP settles: the code step is shown, or the error
sendOtpSettles ==
  /\ focus = "otp" /\ otpLoading
  /\ \E success \in BOOLEAN :
       IF success
         THEN otpStep' = "otp" /\ otpError' = NoOtpError
         ELSE otpStep' = otpStep /\ otpError' = "Failed to send OTP"
  /\ otpLoading' = FALSE
  /\ UNCHANGED <<focus, phoneNumber, formattedPhone, otpSends, loading,
                 pageVars, detailsVars, scoreVars, notOtp>>

OtpIdle ==
  /\ phoneNumber = << >> /\ otpLoading = FALSE /\ otpError = NoOtpError
  /\ otpStep = "phone" /\ formattedPhone = NotFormatted /\ otpSends = 0

RestIdle ==
  EngineIdle /\ ClientIdle /\ PollIdle /\ BandIdle /\ ProfileIdle /\ OtpIdle

-----------------------------------------------------------------------------
(* Specification of the prediction paths.  The initial state is either a    *)
(* direct call about to be made on one of the arguments, or a freshly       *)
(* mounted ManualPrediction page.  The single form and the CSV upload of    *)
(* one page share no state, so each is run on its own.                      *)

FormIdle(t, a, v) ==
  /\ time = t /\ amount = a /\ vFeatures = v
  /\ loading = FALSE /\ result = Null

CsvIdle ==
  /\ csvFile = Null /\ csvData = << >> /\ csvParsing = FALSE /\ readers = {}
  /\ loadedText = << >>
  /\ batchLoading = FALSE /\ batchProgress = 0 /\ batchResults = << >>
  /\ showBatchResults = FALSE /\ batch = NoBatch

NoInput == [isArray |-> TRUE, elems |-> << >>]

PredictInit ==
  /\ DetailsIdle /\ ScoreIdle /\ RestIdle
  /\ network = {} /\ toast = NoToast /\ edits = 0
  /\ utilOut = NoOutcome
  /\ CsvIdle
  /\ \/ /\ focus = "direct"
        /\ \E arg \in RawInputs : utilCall = NoCall(arg)
        /\ FormIdle(<< >>, << >>, Fill(VFeatureCount, Num(0)))
     \/ /\ focus = "formA"
        /\ utilCall = NoCall(NoInput)
        /\ FormIdle(Text_0_0, Text_100_0, Fill(VFeatureCount, Text_0_0))
     \/ /\ focus \in FormPages \cup {"csvB"}
        /\ utilCall = NoCall(NoInput)
        /\ FormIdle(<< >>, << >>, Fill(VFeatureCount, Num(0)))

PredictNext ==
  \/ CallValidate \/ CallBuild \/ CallPredict \/ DirectResponse
  \/ A_setTime \/ A_setAmount \/ A_handleInputChange \/ A_generateSampleFeatures
  \/ A_handlePredict \/ A_predictResponse
  \/ setTime \/ setAmount \/ handleVFeatureChange \/ handleReset
  \/ handlePredict \/ predictResponse
  \/ handleFileChange \/ readerOnload \/ readerOnerror
  \/ handleBatchPredict \/ batchResponse

vars ==
  <<focus, utilCall, utilOut, network, time, amount, vFeatures, loading, result,
    toast, edits, csvFile, csvData, csvParsing, readers, loadedText, batchLoading,
    batchProgress, batchResults, showBatchResults, batch, detailsVars, scoreVars,
    restVars>>

SpecPredict == PredictInit /\ [][PredictNext]_vars

-----------------------------------------------------------------------------
(* Specification of ViewTransactionDetails: the page is mounted on a route  *)
(* id and a return path, and fetchData runs to its end.                     *)

DetailsInit ==
  /\ focus = "details"
  /\ id \in RouteIds /\ returnPath \in ReturnPaths /\ pc = "mount"
  /\ transaction = NoTransaction /\ explanation = NoExplanation
  /\ explanationLoading = TRUE /\ toasts = << >> /\ navigated = << >>
  /\ fetchData = "notCalled" /\ replies = << >>
  /\ ScoreIdle /\ RestIdle
  /\ network = {} /\ toast = NoToast /\ edits = 0
  /\ utilCall = NoCall(NoInput) /\ utilOut = NoOutcome
  /\ CsvIdle
  /\ time = << >> /\ amount = << >> /\ vFeatures = Fill(VFeatureCount, Num(0))
  /\ loading = TRUE /\ result = Null

DetailsNext == mountEffect \/ transactionReply \/ explanationReply

SpecDetails == DetailsInit /\ [][DetailsNext]_vars

-----------------------------------------------------------------------------
(* Specification of the README sample: predict is called on any probability *)

ScoringInit ==
  /\ focus = "scoring"
  /\ ScoreIdle /\ DetailsIdle /\ RestIdle
  /\ network = {} /\ toast = NoToast /\ edits = 0
  /\ utilCall = NoCall(NoInput) /\ utilOut = NoOutcome
  /\ CsvIdle
  /\ FormIdle(<< >>, << >>, Fill(VFeatureCount, Num(0)))

ScoringNext == callPredict

SpecScoring == ScoringInit /\ [][ScoringNext]_vars

-----------------------------------------------------------------------------
(* Specification of the scoring engine: an ensemble is loaded, then predict *)
(* calls run concurrently, member by member, and explain may be called.     *)

EngineInit ==
  /\ focus = "engine"
  /\ ensemble \in Ensembles
  /\ calls = [c \in Callers |-> IdleCall]
  /\ acc = [c \in Callers |-> 0]
  /\ attribution = NoAttribution
  /\ ClientIdle /\ PollIdle /\ BandIdle /\ ProfileIdle /\ OtpIdle
  /\ ScoreIdle /\ DetailsIdle
  /\ network = {} /\ toast = NoToast /\ edits = 0
  /\ utilCall = NoCall(NoInput) /\ utilOut = NoOutcome
  /\ CsvIdle
  /\ FormIdle(<< >>, << >>, Fill(VFeatureCount, Num(0)))

EngineNext == startPredict \/ scoreMember \/ finishPredict \/ explain

SpecEngine == EngineInit /\ [][EngineNext]_vars

-----------------------------------------------------------------------------
(* Specification of the API client: users sign in and out while requests    *)
(* pass through the interceptor.                                            *)

ClientInit ==
  /\ focus = "client"
  /\ currentUser \in Users \cup {NoUser} /\ pending = {} /\ sent = {}
  /\ EngineIdle /\ PollIdle /\ BandIdle /\ ProfileIdle /\ OtpIdle
  /\ ScoreIdle /\ DetailsIdle
  /\ network = {} /\ toast = NoToast /\ edits = 0
  /\ utilCall = NoCall(NoInput) /\ utilOut = NoOutcome
  /\ CsvIdle
  /\ FormIdle(<< >>, << >>, Fill(VFeatureCount, Num(0)))

ClientNext == signIn \/ signOut \/ interceptRequest \/ tokenResolved \/ tokenRejected

SpecClient == ClientInit /\ [][ClientNext]_vars

-----------------------------------------------------------------------------
(* Specification of the polling pages: a page is mounted, time passes,    *)
(* polls settle in any order and the page may be left at any time.          *)

PollInit ==
  /\ focus = "poll"
  /\ pollPage \in PollPages /\ mounted = "no" /\ now = 0 /\ interval = NoInterval
  /\ polls = << >> /\ shown = NothingShown /\ pollLoading = TRUE
  /\ initialLoad = TRUE
  /\ EngineIdle /\ ClientIdle /\ BandIdle /\ ProfileIdle /\ OtpIdle
  /\ ScoreIdle /\ DetailsIdle
  /\ network = {} /\ toast = NoToast /\ edits = 0
  /\ utilCall = NoCall(NoInput) /\ utilOut = NoOutcome
  /\ CsvIdle
  /\ FormIdle(<< >>, << >>, Fill(VFeatureCount, Num(0)))

PollNext == mountPage \/ tick \/ intervalFires \/ pollSettles \/ unmountPage

SpecPoll == PollInit /\ [][PollNext]_vars

-----------------------------------------------------------------------------
(* Specification of the risk bands: the dashboard holds transactions with  *)
(* any scores of 0..100; the table rows and the pie chart are rendered.      *)

BandInit ==
  /\ focus = "bands"
  /\ scores \in {<<s>> : s \in Scores} \cup
                {<<a, b>> : a \in EdgeScores, b \in EdgeScores}
  /\ labels = << >> /\ riskDistribution = NoDistribution
  /\ EngineIdle /\ ClientIdle /\ PollIdle /\ ProfileIdle /\ OtpIdle
  /\ ScoreIdle /\ DetailsIdle
  /\ network = {} /\ toast = NoToast /\ edits = 0
  /\ utilCall = NoCall(NoInput) /\ utilOut = NoOutcome
  /\ CsvIdle
  /\ FormIdle(<< >>, << >>, Fill(VFeatureCount, Num(0)))

BandNext == renderRiskScore \/ computeRiskDistribution

SpecBands == BandInit /\ [][BandNext]_vars

-----------------------------------------------------------------------------
(* Specification of the password card of Profile: the user signs in,       *)
(* edits the fields and clicks "Update Password"; Firebase answers.         *)

ProfileInit ==
  /\ focus = "profile"
  /\ ProfileIdle
  /\ EngineIdle /\ ClientIdle /\ PollIdle /\ BandIdle /\ OtpIdle
  /\ ScoreIdle /\ DetailsIdle
  /\ network = {} /\ toast = NoToast /\ edits = 0
  /\ utilCall = NoCall(NoInput) /\ utilOut = NoOutcome
  /\ CsvIdle
  /\ FormIdle(<< >>, << >>, Fill(VFeatureCount, Num(0)))

ProfileNext ==
  \/ authStateChanged \/ editPasswordField \/ handlePasswordUpdate
  \/ reauthSettles \/ updateSettles

SpecProfile == ProfileInit /\ [][ProfileNext]_vars

-----------------------------------------------------------------------------
(* Specification of the phone step of OTPSignIn: a number is typed and     *)
(* "Send OTP" is clicked.                                                   *)

OtpInit ==
  /\ focus = "otp"
  /\ OtpIdle
  /\ EngineIdle /\ ClientIdle /\ PollIdle /\ BandIdle /\ ProfileIdle
  /\ ScoreIdle /\ DetailsIdle
  /\ network = {} /\ toast = NoToast /\ edits = 0
  /\ utilCall = NoCall(NoInput) /\ utilOut = NoOutcome
  /\ CsvIdle
  /\ FormIdle(<< >>, << >>, Fill(VFeatureCount, Num(0)))

OtpNext == setPhoneNumber \/ handleSendOTP \/ sendOtpSettles

SpecOtp == OtpInit /\ [][OtpNext]_vars

-----------------------------------------------------------------------------
(* Specification of the CSV upload on its own: files are selected one      *)
(* after another, also while a read or a batch run is in progress.          *)

UploadInit ==
  /\ focus = "csvR"
  /\ utilCall = NoCall(NoInput) /\ utilOut = NoOutcome
  /\ network = {} /\ toast = NoToast /\ edits = 0
  /\ CsvIdle
  /\ FormIdle(<< >>, << >>, Fill(VFeatureCount, Num(0)))
  /\ DetailsIdle /\ ScoreIdle /\ RestIdle

UploadNext ==
  \/ handleFileChange \/ readerOnload \/ readerOnerror
  \/ handleBatchPredict \/ batchResponse

SpecUpload == UploadInit /\ [][UploadNext]_vars

-----------------------------------------------------------------------------
(* Properties of the prediction paths *)

DirectLen == Len(utilCall.arg.elems)
PageRequests == { r \in network : r.origin # "direct" }

\* the value the page converts the raw cell c of a request to
Converted(origin, c) ==
  IF c.raw = "num" THEN c.num
  ELSE IF origin = "formA" THEN OrZero(parseFloat(c.text))
  ELSE IF origin = "batch" THEN NumericValue(c.text)
  ELSE parseFloat(c.text)

\* C1: validation of an input whose length is not 30 throws, with the
\* length error when the input is an array, and predictTransaction throws
\* the length error without sending a request to /predict.
C1_WrongLengthThrows ==
  /\ (utilCall.fn = "validate" /\ DirectLen # 30) =>
       /\ utilOut.kind = "throw"
       /\ utilCall.arg.isArray => utilOut.message = ShapeError
  /\ (utilCall.fn = "predict" /\ DirectLen # 30) =>
       /\ utilOut = Threw(ShapeError)
       /\ network = {}

C1_Witness ==
  /\ utilCall.fn = "predict" /\ DirectLen = 31
  /\ utilOut.kind = "throw"

\* C2 as stated: an input of 29 or 31 elements fails with the length error
\* and no request is ever built from a row of 29 or 31 values.
C2_NeverTruncatedOrPadded ==
  /\ (utilCall.fn \in {"validate", "predict"} /\ utilCall.arg.isArray
        /\ DirectLen \in {29, 31}) => utilOut = Threw(ShapeError)
  /\ \A r \in network : Len(r.src) \notin {29, 31}

\* C2 amended: an input of 29 or 31 elements given to validate or to
\* predictTransaction fails with the length error; every request carries 30
\* features and none is padded; the only requests built from a row of
\* another length come from 31-column CSV rows and carry their first 30
\* values.
C2_OnlyClassColumnDropped ==
  /\ (utilCall.fn \in {"validate", "predict"} /\ utilCall.arg.isArray
        /\ DirectLen \in {29, 31}) => utilOut = Threw(ShapeError)
  /\ \A r \in network :
       /\ Len(r.features) = 30
       /\ Len(r.src) >= 30
       /\ Len(r.src) # 30 =>
            /\ r.origin = "batch"
            /\ Len(r.src) = 31
            /\ \A j \in 1..30 : r.features[j] = NumericValue(r.src[j].text)

C2_Witness ==
  \E r \in network : r.origin = "batch" /\ Len(r.src) = 31 /\ Len(r.features) = 30

\* C3 as stated: validation of a 30-element array throws the value error
\* when an element is not a finite number, and returns true only when all
\* 30 elements are finite numbers.
C3_NonFiniteRejected ==
  (utilCall.fn = "validate" /\ utilCall.arg.isArray /\ DirectLen = 30) =>
    /\ (\E i \in 1..30 : ~IsFinite(utilCall.arg.elems[i])) => utilOut = Threw(ValueError)
    /\ utilOut.kind = "return" => \A i \in 1..30 : IsFinite(utilCall.arg.elems[i])

\* C4 as stated: no request of a page is built from a form field or CSV
\* cell that does not parse to a number.
C4_UnparseableNeverScored ==
  \A r \in PageRequests :
    \A j \in 1..Len(r.src) :
      r.src[j].raw = "text" => ~isNaN(parseFloat(Cleaned(r.src[j].text)))

-----------------------------------------------------------------------------
(* Properties of the README sample *)

\* C5 as stated: the verdict is fraud exactly when the probability is at
\* least the threshold, a probability equal to the threshold included.
C5_ClosedThreshold ==
  scored # NotScored =>
    (scored.is_fraud <=> fraud_prob * 10 >= ThresholdTenths * ProbScale)

-----------------------------------------------------------------------------
(* Properties of ViewTransactionDetails *)

\* entry a is ranked before entry b
Before(a, b) ==
  \/ Abs(a.shap_value) > Abs(b.shap_value)
  \/ Abs(a.shap_value) = Abs(b.shap_value) /\ a.index < b.index

\* C6: the ranked list of the loaded explanation holds every feature once,
\* in descending order of |shap_value|, equal magnitudes in ascending order
\* of the feature index; topFeatures is its first 15 entries.
C6_RankedByMagnitude ==
  explanation.loaded =>
    LET ranked == Ranked(explanation)
        n == Len(explanation.shap_values)
    IN /\ Len(ranked) = n
       /\ { ranked[k].index : k \in 1..n } = 0..(n - 1)
       /\ \A k \in 1..n : ranked[k].shap_value = explanation.shap_values[ranked[k].index + 1]
       /\ \A k \in 1..n : \A m \in 1..n : k < m => Before(ranked[k], ranked[m])
       /\ Len(topFeatures) = (IF n < 15 THEN n ELSE 15)
       /\ \A k \in 1..Len(topFeatures) : topFeatures[k] = ranked[k]

C6_Witness ==
  /\ explanation.loaded
  /\ explanation.shap_values = <<1, -2, 2>>
  /\ topFeatures[1].index = 1 /\ topFeatures[2].index = 2

\* C7: once fetchData has ended with the transaction loaded and the
\* explanation request failed, the transaction shown is the one the backend
\* returned, navigate was never called, the only toast is the error of the
\* explanation request and the card reads "SHAP explanation not available".
C7_FailedExplainKeepsTransaction ==
  (pc = "done" /\ transaction # NoTransaction /\ ~explanation.loaded) =>
    /\ transaction = Stored(id)
    /\ navigated = << >>
    /\ ~loading
    /\ View = [shows |-> "details", transaction |-> Stored(id),
               card |-> [shows |-> "SHAP explanation not available", entries |-> << >>]]
    /\ Len(toasts) = 1 /\ toasts[1].level = "error"

C7_Witness ==
  /\ pc = "done" /\ transaction = Stored("tx-1") /\ ~explanation.loaded
  /\ Len(replies) = 2 /\ ~replies[2].ok
  /\ View.card.shows = "SHAP explanation not available"

\* the message shown for a failed reply
Reported(reply, fallback) ==
  IF reply.hasResponse /\ reply.detail # "" THEN reply.detail ELSE fallback
Fallback(k) ==
  IF k = 1 THEN "Failed to load transaction details" ELSE "Failed to load SHAP explanation"
FailedReplies == { k \in 1..Len(replies) : ~replies[k].ok }

\* C8: the promise of fetchData is never rejected and is fulfilled once both
\* requests were answered; every failed request is reported by one error
\* toast carrying the detail of the reply or the fallback text; for an
\* unknown id both requests fail, with NotFound when the backend answers,
\* and neither a transaction nor an explanation is loaded.
C8_FailuresCaught ==
  /\ fetchData # "rejected"
  /\ pc = "done" => fetchData = "fulfilled" /\ ~loading /\ ~explanationLoading
  /\ id # "" =>
       /\ Len(toasts) = Cardinality(FailedReplies)
       /\ \A k \in FailedReplies :
            LET t == toasts[Cardinality({ m \in FailedReplies : m <= k })]
            IN t.level = "error" /\ t.msg = Reported(replies[k], Fallback(k))
  /\ (id = "unknown-id" /\ pc = "done") =>
       /\ FailedReplies = {1, 2}
       /\ \A k \in {1, 2} : replies[k].hasResponse => replies[k] = NotFound
       /\ transaction = NoTransaction /\ ~explanation.loaded

C8_Witness ==
  /\ id = "unknown-id" /\ pc = "done" /\ fetchData = "fulfilled"
  /\ replies = <<NotFound, NotFound>>
  /\ Len(toasts) = 2 /\ toasts[2].msg = "Transaction not found"

-----------------------------------------------------------------------------
(* Properties of the scoring engine *)

DoneCalls == { c \in Callers : calls[c].pc = "done" }
MemberProbabilities(x) == { predictProbability(i, x) : i \in Members }
Least(S) == CHOOSE a \in S : \A b \in S : a <= b
Greatest(S) == CHOOSE a \in S : \A b \in S : a >= b

C12_SoftVoting ==
  \A c \in DoneCalls :
    LET ps == MemberProbabilities(calls[c].input)
    IN /\ calls[c].den > 0
       /\ calls[c].num * TotalWeight
            = calls[c].den * SetSum([i \in Members |->
                                       Weight(i) * predictProbability(i, calls[c].input)])
       /\ ensemble.weights = << >> =>
            calls[c].num * MemberCount
              = calls[c].den * SetSum([i \in Members |-> predictProbability(i, calls[c].input)])
       /\ 0 <= calls[c].num /\ calls[c].num <= ProbScale * calls[c].den
       /\ Least(ps) * calls[c].den <= calls[c].num
       /\ calls[c].num <= Greatest(ps) * calls[c].den

C12_Witness ==
  \E c \in DoneCalls :
    /\ ensemble.weights # << >>
    /\ calls[c].input = "fixture"
    /\ Least(MemberProbabilities("fixture")) * calls[c].den < calls[c].num
    /\ calls[c].num < Greatest(MemberProbabilities("fixture")) * calls[c].den

\* C13: finished predict calls on the same input carry the same probability
\* and verdict, however the calls were interleaved, and the loaded ensemble
\* is one of those loaded at startup.
C13_Deterministic ==
  /\ focus = "engine" => ensemble \in Ensembles
  /\ \A c \in DoneCalls : \A d \in DoneCalls :
       calls[c].input = calls[d].input =>
         /\ calls[c].num = calls[d].num /\ calls[c].den = calls[d].den
         /\ calls[c].verdict = calls[d].verdict

C13_Witness ==
  /\ DoneCalls = Callers
  /\ \A c \in Callers : calls[c].input = "fixture" /\ calls[c].verdict = "Fraudulent"

-----------------------------------------------------------------------------
(* Properties of the API client *)

\* C14 as stated: every request the interceptor passed on while a user was
\* signed in carries the Authorization header with the ID token of that user.
C14_TokenOnEveryRequest ==
  \A r \in sent : r.user # NoUser => r.Authorization = Bearer(r.user)

-----------------------------------------------------------------------------
(* Properties of the CSV upload and of batch prediction *)

\* the rows a text holds for the upload: its non-blank lines, without a
\* first line that has a non-numeric value (the header)
DataRows(text) ==
  LET lines == NonBlankLines(SplitLines(text))
  IN IF Len(lines) > 0 /\ HasNonNumeric(ValuesOf(lines[1]))
       THEN SubSeq(lines, 2, Len(lines)) ELSE lines

\* the transactions to load from data rows: 30 values as they are, the first
\* 30 of 31 values, nothing for any other count
RECURSIVE ExpectedRows(_)
ExpectedRows(rows) ==
  IF rows = << >> THEN << >>
  ELSE LET nums == NumericValues(ValuesOf(Head(rows)))
       IN (IF Len(nums) = 30 THEN <<nums>>
           ELSE IF Len(nums) = 31 THEN <<SubSeq(nums, 1, 30)>>
           ELSE << >>) \o ExpectedRows(Tail(rows))

\* C15 as stated: the loaded transactions are, in order, every data row of 30
\* columns and the first 30 values of every data row of 31 columns; rows of
\* any other column count are left out; every loaded row has 30 values.
C15_RowsOf30Or31Loaded ==
  /\ \A k \in 1..Len(csvData) : Len(csvData[k].features) = 30
  /\ readers = {} =>
       [k \in 1..Len(csvData) |-> csvData[k].features] = ExpectedRows(DataRows(loadedText))

\* results describes rows 1..Len(results), one entry per row in row order,
\* and the three counts are those of its entries
ResultsInOrder(results, fraudCount, legitimateCount, errorCount) ==
  /\ \A k \in 1..Len(results) :
       /\ results[k].transactionId = k
       /\ \/ /\ results[k].status = "success"
             /\ \E o \in BatchOutcomes :
                  /\ o.ok /\ results[k].prediction = o.prediction
                  /\ results[k].probability = o.probability
          \/ /\ results[k].status = "error"
             /\ results[k].prediction = "Error" /\ results[k].probability = 0
  /\ fraudCount = Cardinality({ k \in 1..Len(results) : results[k].prediction = "Fraudulent" })
  /\ legitimateCount = Cardinality({ k \in 1..Len(results) : results[k].prediction = "Legitimate" })
  /\ errorCount = Cardinality({ k \in 1..Len(results) : results[k].prediction = "Error" })
  /\ fraudCount + legitimateCount + errorCount = Len(results)

\* C16: while a batch runs, the rows before the current one have one result
\* each, in row order, and the only request in flight is that of the current
\* row; when it has ended, the results shown are one per row of the batch,
\* result k for row k, and the reported counts are those of the results and
\* sum to the number of rows.
C16_OneResultPerRow ==
  /\ batch.running =>
       /\ batch.i < Len(batch.rows)
       /\ Len(batch.results) = batch.i
       /\ ResultsInOrder(batch.results, batch.fraudCount, batch.legitimateCount,
                         batch.errorCount)
       /\ \A r \in network :
            r.origin = "batch" => r.features = batch.rows[batch.i + 1].features
       /\ Cardinality({ r \in network : r.origin = "batch" }) = 1
  /\ (toast.msg = "Batch prediction complete!" /\ ~batchLoading /\ batchResults # << >>) =>
       /\ Len(batchResults) = toast.counts[1]
       /\ ResultsInOrder(batchResults, toast.counts[2], toast.counts[3], toast.counts[4])
       /\ edits = 1 => Len(batchResults) = Len(csvData)
       /\ { r \in network : r.origin = "batch" } = {}

C16_Witness ==
  /\ toast.msg = "Batch prediction complete!" /\ ~batchLoading
  /\ Len(batchResults) = 2 /\ Len(csvData) = 2
  /\ batchResults[1].status = "error" /\ batchResults[2].prediction = "Fraudulent"
  /\ toast.counts = <<2, 1, 0, 1>>

-----------------------------------------------------------------------------
\* the seconds at which the polls so far were started
StartTimes == [k \in 1..Len(polls) |-> polls[k].at]

\* the polls a page mounted at second 0 has started by second t when one
\* starts at the mount and one every 5 seconds after it
Scheduled(t) == [k \in 1..((t \div 5) + 1) |-> 5 * (k - 1)]

-----------------------------------------------------------------------------
\* the documented band of a score: High 70-100, Medium 40-69, Low 0-39
DocumentedBand(score) ==
  IF score >= 70 THEN "High" ELSE IF score >= 40 THEN "Medium" ELSE "Low"

\* C18: every label rendered by RiskScore is the documented band of the
\* row's score and the band in which riskDistribution counts the row's
\* transaction, and the pie chart counts every transaction in exactly one
\* band.
C18_SameBands ==
  /\ \A i \in 1..Len(labels) :
       /\ labels[i] = DocumentedBand(scores[i])
       /\ CountedAs(labels[i], scores[i])
  /\ \A i \in 1..Len(scores) :
       Cardinality({b \in Bands : CountedAs(b, scores[i])}) = 1
  /\ riskDistribution # NoDistribution =>
       riskDistribution["High"] + riskDistribution["Medium"]
         + riskDistribution["Low"] = Len(scores)

\* what holds of the code: the labels agree with the bands of the pie chart
\* for every score other than 40 and 70
C18_AgreeOffBoundaries ==
  /\ \A i \in 1..Len(labels) :
       scores[i] \notin {40, 70} => CountedAs(labels[i], scores[i])
  /\ \A i \in 1..Len(scores) :
       Cardinality({b \in Bands : CountedAs(b, scores[i])}) = 1

-----------------------------------------------------------------------------
\* the conditions on the fields d a run of handlePasswordUpdate was started on
ChecksHold(d) ==
  /\ d.currentPassword # << >> /\ d.newPassword # << >>
  /\ d.newPassword = d.confirmPassword
  /\ Len(d.newPassword) >= 6

\* a step of handlePasswordUpdate that ends the run with an error toast
FailingStep ==
  /\ pwEdits' = pwEdits /\ profileUser' = profileUser
  /\ pwRun' = NotRunning
  /\ pwToast' \in PwErrorToasts
  /\ pwRun.pc = "idle" => saving' = saving

\* C19: every call of updatePassword was made by a run whose fields passed
\* the checks (both non-empty, new = confirmation, at least 6 long) and whose
\* reauthentication with the current password succeeded; the account's
\* password changes only when such a call succeeds, to the new password; a
\* run that ends with an error leaves the password and the fields as they
\* were.
C19_UpdateOnlyAfterChecks ==
  /\ [](\A i \in 1..Len(updateCalls) :
          ChecksHold(updateCalls[i].data) /\ updateCalls[i].reauthenticated)
  /\ [](pwRun.pc = "update" =>
          /\ pwRun.data.currentPassword = accountPassword
          /\ updateCalls[Len(updateCalls)] = pwRun)
  /\ [][accountPassword' # accountPassword =>
          pwRun.pc = "update" /\ accountPassword' = pwRun.data.newPassword]_vars
  /\ [][FailingStep =>
          passwordData' = passwordData /\ accountPassword' = accountPassword]_vars

\* a first updatePassword call failed and left the fields filled in, a second
\* one changed the password
C19_Witness ==
  /\ Len(updateCalls) = 2
  /\ accountPassword = Pw(7, "b")
  /\ pwToast = "Password updated successfully"

-----------------------------------------------------------------------------
\* every entry of the explanation, in the order of shap_values
AllEntries == [i \in 1..Len(explanation.shap_values) |-> Entry(explanation, i)]

\* C20: whenever the explanation card shows features, the counts of
\* increasing and decreasing features and the total of its summary are those
\* of the whole shap_values vector, however many entries it has.
C20_SummaryOverFullVector ==
  ExplanationCard.shows = "features" => Summary = SummaryOf(AllEntries)

\* what holds of the code: the summary is that of the 15 entries listed, and
\* it is that of the whole vector when at most 15 entries are not 0
C20_SummaryOverListed ==
  ExplanationCard.shows = "features" =>
    /\ Summary = SummaryOf(ExplanationCard.entries)
    /\ CountWhere(AllEntries, ShapValues \ {0}) <= TopK =>
         Summary = SummaryOf(AllEntries)

-----------------------------------------------------------------------------
\* E.164 form as the claim has it: '+' followed only by digits
IsE164(s) ==
  /\ s # << >> /\ s[1] = PLUS
  /\ \A i \in 2..Len(s) : IsDigit(s[i])

\* C21: every result of formatPhoneNumber is '+' followed only by digits:
\* '+1' and the input's digits when the input does not start with '+', '+'
\* and the input's digits when it does.
C21_AlwaysE164 ==
  formattedPhone.called =>
    /\ IsE164(formattedPhone.output)
    /\ formattedPhone.output =
         IF StartsWithPlus(formattedPhone.input)
           THEN <<PLUS>> \o RemoveNonDigits(formattedPhone.input)
           ELSE <<PLUS, "1">> \o RemoveNonDigits(formattedPhone.input)

\* what holds of the code: an input without a leading '+' gives '+1' and its
\* digits, an input with a leading '+' is returned as it is
C21_PlusInputsReturned ==
  formattedPhone.called =>
    IF StartsWithPlus(formattedPhone.input)
      THEN formattedPhone.output = formattedPhone.input
      ELSE /\ IsE164(formattedPhone.output)
           /\ formattedPhone.output =
                <<PLUS, "1">> \o RemoveNonDigits(formattedPhone.input)

-----------------------------------------------------------------------------
\* the polls that have completed
Completed == {k \in 1..Len(polls) : polls[k].state # "pending"}

\* the most recently started poll of a non-empty set of polls
Latest(ks) == CHOOSE k \in ks : \A j \in ks : j <= k

\* what the page shows after poll k has completed
OutcomeOf(k) == IF polls[k].state = "ok" THEN ShownData(k) ELSE ShownError

\* C22: while the Dashboard is mounted and some poll has completed, the stats,
\* the transactions and the error state shown are those of the most recently
\* started poll among the completed ones.
C22_LatestCompletedPollShown ==
  pollPage = "Dashboard" /\ mounted = "yes" /\ Completed # {} =>
    shown = OutcomeOf(Latest(Completed))

\* what holds of the code: the page shows the outcome of one of the completed
\* polls, the one that completed last, whichever poll that is
C22_SomeCompletedPollShown ==
  pollPage = "Dashboard" /\ mounted = "yes" /\ Completed # {} =>
    \E k \in Completed : shown = OutcomeOf(k)

-----------------------------------------------------------------------------
\* the rows the run that may end in this step works on
RunRows == IF batch.running THEN batch.rows ELSE csvData

\* C23: batchResults is filled only by a batch run over the rows of the file
\* that is loaded when the run completes, so after a new file is selected
\* (also during a run) it stays empty until a run over the new file's rows
\* completes, and the results held for display and download are never
\* those of a run over another file's rows.
C23_ResultsOfLoadedFile ==
  [][batchResults' # << >> /\ batchResults' # batchResults =>
       /\ csvData' # << >>
       /\ RunRows = csvData'
       /\ Len(batchResults') = Len(csvData')]_vars

\* what holds of the code: batchResults is filled by the end of a run with
\* one result per row of the run, whatever file is loaded by then
C23_ResultsOfFinishedRun ==
  [][batchResults' # << >> /\ batchResults' # batchResults =>
       /\ batchLoading' = FALSE
       /\ Len(batchResults') = Len(RunRows)]_vars

====
